---- MODULE Spec2Model ----
(***************************************************************************)
(* A model of the biosim island simulation (biosim/animals.py,             *)
(* biosim/landscape.py, biosim/island_nature.py).                          *)
(*                                                                         *)
(* Real numbers are fixed-point integers in thousandths: a weight of 20.0  *)
(* is 20000, a probability of 0.25 is 250, a parameter eta = 0.05 is 50.   *)
(* Ages are whole years.  A call of random.random() is a value r drawn     *)
(* from Draws, standing for r/1000 in [0, 1).                              *)
(***************************************************************************)
EXTENDS Integers, Sequences, FiniteSets, TLC

VARIABLES
    params,          \* Herbivore.params / Carnivore.params (class tables)
    lparams,         \* Jungle.params / Savannah.params (class tables)
    prob_kill_zero,  \* Carnivore.prob_kill replaced by a constant 0
    island_map,      \* Island.island_map: location -> cell
    next_id,         \* identity of the next animal object constructed
    pc,              \* position inside Island.annual_cycle / animals_migrate
    year,            \* completed calls of annual_cycle
    rnd_island,      \* the shuffled interior cells of animals_migrate
    cur,             \* index into rnd_island of the cell being visited
    k,               \* index into the visited cell's list (the for loop)
    remaining,       \* remaining_herb / remaining_carn of the visited cell
    ncalls,          \* calls of the public interface made so far
    call,            \* the last call of the public interface and its outcome
    placed,          \* animals place_animals has put on the island, per species
    phases,          \* phases of the running annual_cycle, in execution order
    origin,          \* animal id -> cell it was in when animals_migrate began
    place_of,        \* animal id -> cell it is in or staged into
    pre_pass,        \* island_map when the running species pass began
    subject,         \* an animal object operated on alone, with its _fitness cache
    landscape        \* a cell (a Landscape object) operated on alone

vars == <<params, lparams, prob_kill_zero, island_map, next_id, pc, year,
          rnd_island, cur, k, remaining, ncalls, call, placed, phases,
          origin, place_of, pre_pass, subject, landscape>>

----------------------------------------------------------------------------
(* Bounds of the model. *)

\* calls of annual_cycle in a run
MaxYears == 1
\* records given to place_animals in a run
MaxPlaced == 2
\* animals in one record's population
MaxPop == 2
\* calls of set_parameters in a run
MaxCalls == 2
\* keys in one new_params dictionary
MaxKeys == 2
\* method calls on one animal object in a run
MaxOps == 3
\* herbivores in a list given to Carnivore.eating
MaxHerd == 3
\* rows of a map given to Island, and letters of a row
MaxRows == 3
MaxCols == 3

----------------------------------------------------------------------------
(* Fixed-point arithmetic. *)

\* a * b for two fixed-point numbers
Mul(a, b) == (a * b) \div 1000

\* a / b for two fixed-point numbers
Div(a, b) == (a * 1000) \div b

RECURSIVE TaylorSum(_, _, _)
\* sum of term + term*f/k + term*f^2/(k(k+1)) + ... in millionths, 0 <= f < 1000
TaylorSum(term, n, f) ==
    IF term = 0 THEN 0
    ELSE term + TaylorSum((term * f) \div (1000 * n), n + 1, f)

RECURSIVE EPow(_)
\* e^n in thousandths for a whole n in 0..7
EPow(n) == IF n = 0 THEN 1000 ELSE (EPow(n - 1) * 2718) \div 1000

\* math.exp(x) for x >= 0; saturates at e^7 (beyond the range the simulation
\* model reaches)
ExpPos(x) ==
    IF x >= 7000 THEN EPow(7)
    ELSE (EPow(x \div 1000) * (TaylorSum(1000000, 1, x % 1000) \div 1000)) \div 1000

\* math.exp(x)
exp(x) == IF x >= 0 THEN ExpPos(x) ELSE 1000000 \div ExpPos(-x)

RECURSIVE SumSeq(_)
SumSeq(s) == IF s = <<>> THEN 0 ELSE Head(s) + SumSeq(Tail(s))

Range(s) == {s[i] : i \in 1..Len(s)}

----------------------------------------------------------------------------
(* fitness_workers.py *)

q_factor(phi, x, x_half) == Div(1000, 1000 + exp(Mul(phi, x - x_half)))

fitness_value(phi_age, age, a_half, phi_weight, weight, w_half) ==
    Mul(q_factor(phi_age, age * 1000, a_half),
        q_factor(-phi_weight, weight, w_half))

----------------------------------------------------------------------------
(* animals.py: the class parameter tables. *)

HerbivoreParams ==
    [eta |-> 50, omega |-> 400, a_half |-> 40000, w_half |-> 10000,
     phi_age |-> 200, phi_weight |-> 100, gamma |-> 200, w_birth |-> 8000,
     sigma_birth |-> 1500, zeta |-> 3500, xi |-> 1200, beta |-> 900,
     mu |-> 250, lambda |-> 1000, F |-> 10000]

CarnivoreParams ==
    [eta |-> 125, omega |-> 900, a_half |-> 60000, w_half |-> 4000,
     phi_age |-> 400, phi_weight |-> 400, gamma |-> 800, w_birth |-> 6000,
     sigma_birth |-> 1000, zeta |-> 3500, xi |-> 1100, beta |-> 750,
     mu |-> 400, lambda |-> 1000, F |-> 50000, DeltaPhiMax |-> 10000]

JungleParams == [fmax |-> 800000]

SavannahParams == [fmax |-> 300000, alpha |-> 300]

\* lower / upper of Animal.set_parameters
lower ==
    [eta |-> 0, omega |-> 0, a_half |-> 0, w_half |-> 0, phi_age |-> 0,
     phi_weight |-> 0, gamma |-> 0, w_birth |-> 0, sigma_birth |-> 0,
     zeta |-> 0, beta |-> 0, mu |-> 0, F |-> 0, xi |-> 0]

upper == [eta |-> 1000, omega |-> 1000, gamma |-> 1000, beta |-> 1000,
          mu |-> 1000]

\* dict.update(new_params) on a table
dict_update(table, new_params) ==
    [key \in (DOMAIN table) \cup (DOMAIN new_params) |->
        IF key \in DOMAIN new_params THEN new_params[key] ELSE table[key]]

\* the first loop's checks of Animal.set_parameters, applied key by key, with
\* the keys applied so far kept in the table (a bug Animal.set_parameters
\* does not have)
Animal_set_parameters_eager(table, new_params) ==
    LET bad(i) == \/ i \notin DOMAIN table
                  \/ i \in DOMAIN lower /\ new_params[i] < lower[i]
                  \/ i \in DOMAIN upper /\ new_params[i] > upper[i]
                  \/ i = "DeltaPhiMax" /\ new_params[i] <= 0
        good == {i \in DOMAIN new_params : ~bad(i)}
    IN  [raised |-> (\E i \in DOMAIN new_params : bad(i)),
         table |-> dict_update(table, [i \in good |-> new_params[i]])]

\* Animal.set_parameters(new_params) on the class whose table is given:
\* the outcome and the class table afterwards
Animal_set_parameters(table, new_params) ==
    IF "DeltaPhiMax" \in DOMAIN new_params /\ new_params["DeltaPhiMax"] <= 0
    THEN [raised |-> TRUE, table |-> table]
    ELSE IF \E i \in DOMAIN new_params :
                \/ i \notin DOMAIN table
                \/ i \in DOMAIN lower /\ new_params[i] < lower[i]
                \/ i \in DOMAIN upper /\ new_params[i] > upper[i]
    THEN [raised |-> TRUE, table |-> table]
    ELSE [raised |-> FALSE, table |-> dict_update(table, new_params)]

\* Landscape.set_parameters(new_params) on the class whose table is given
Landscape_set_parameters(table, new_params) ==
    IF \E i \in DOMAIN new_params : i \notin DOMAIN table
    THEN [raised |-> TRUE, table |-> table]
    ELSE IF \E i \in DOMAIN new_params : new_params[i] < 0
    THEN [raised |-> TRUE, table |-> table]
    ELSE IF "alpha" \in DOMAIN new_params /\ new_params["alpha"] > 1000
    THEN [raised |-> TRUE, table |-> table]
    ELSE [raised |-> FALSE, table |-> dict_update(table, new_params)]

----------------------------------------------------------------------------
(* animals.py: Animal, Herbivore, Carnivore.  An animal object is a record *)
(* [id, species, weight, age]; id is the object's identity.                *)

\* values random.random() is drawn from
Draws == {0, 999}

\* values rnd = random.random() of animal_moves_to is drawn from: the least,
\* one in between and the greatest
MoveDraws == {0, 900, 999}

\* values random.gauss(w_birth, sigma_birth) is drawn from
GaussDraws == {0, 7000, 90000}

\* Animal.__init__ raises ValueError
init_raises(weight, age) == weight <= 0 \/ age < 0

\* the class of a species tag as add_population reads it; "" when unknown
class_of(species) ==
    IF species = "Herbivore" \/ species = "herbivore" THEN "Herbivore"
    ELSE IF species = "Carnivore" \/ species = "carnivore" THEN "Carnivore"
    ELSE ""

new_animal(id, cls, weight, age) ==
    [id |-> id, species |-> cls, weight |-> weight, age |-> age]

P(a) == params[a.species]

\* Animal.fitness
fitness(a) ==
    fitness_value(P(a).phi_age, a.age, P(a).a_half,
                  P(a).phi_weight, a.weight, P(a).w_half)

\* Animal.aging
aging(a) == [a EXCEPT !.age = a.age + 1]

\* a weight_change that takes eta off the weight instead of the fraction eta
\* of it (a bug Animal.weight_change does not have)
weight_change_flat(a) == [a EXCEPT !.weight = a.weight - P(a).eta]

\* Animal.weight_change
weight_change(a) == [a EXCEPT !.weight = a.weight - Mul(P(a).eta, a.weight)]

\* a probability_birth that counts the animal itself among its possible
\* mates (a bug Animal.probability_birth does not have)
probability_birth_counts_self(a, num_animals) ==
    IF a.weight < Mul(P(a).zeta, P(a).w_birth + P(a).sigma_birth) THEN 0
    ELSE LET prob == Mul(P(a).gamma, fitness(a)) * num_animals
         IN  IF prob > 1000 THEN 1000 ELSE prob

\* Animal.probability_birth
probability_birth(a, num_animals) ==
    IF a.weight < Mul(P(a).zeta, P(a).w_birth + P(a).sigma_birth) THEN 0
    ELSE LET prob == Mul(P(a).gamma, fitness(a)) * (num_animals - 1)
         IN  IF prob > 1000 THEN 1000 ELSE prob

\* a birth that does not check the mother's weight after the birth (a bug
\* Animal.birth does not have)
birth_unchecked(a, num_animals, r, w_newborn, id) ==
    IF /\ r < probability_birth(a, num_animals)
       /\ 0 < w_newborn /\ w_newborn < a.weight
    THEN [mother |-> [a EXCEPT !.weight =
                          a.weight - Mul(P(a).xi, w_newborn)],
          newborn |-> <<new_animal(id, a.species, w_newborn, 0)>>]
    ELSE [mother |-> a, newborn |-> <<>>]

\* Animal.birth with the draws r = random.random() and w_newborn =
\* random.gauss(...): the mother afterwards and the newborns (none or one)
birth(a, num_animals, r, w_newborn, id) ==
    LET w_mother_after == a.weight - Mul(P(a).xi, w_newborn)
    IN  IF /\ r < probability_birth(a, num_animals)
           /\ 0 < w_newborn /\ w_newborn < a.weight
           /\ w_mother_after > 0
        THEN [mother |-> [a EXCEPT !.weight = w_mother_after],
              newborn |-> <<new_animal(id, a.species, w_newborn, 0)>>]
        ELSE [mother |-> a, newborn |-> <<>>]

\* Animal.death with the draw r
death(a, r) == r < Mul(P(a).omega, 1000 - fitness(a))

\* Animal.prob_migration
prob_migration(a) == Mul(P(a).mu, fitness(a))

\* an eating that takes the full appetite F whatever is available (a bug
\* Herbivore.eating does not have)
herb_eat_greedy(a, available_food) ==
    [animal |-> [a EXCEPT !.weight = a.weight + Mul(P(a).beta, P(a).F)],
     eaten |-> P(a).F]

\* Herbivore.eating for available_food >= 0
herb_eat(a, available_food) ==
    IF P(a).F <= available_food
    THEN [animal |-> [a EXCEPT !.weight = a.weight + Mul(P(a).beta, P(a).F)],
          eaten |-> P(a).F]
    ELSE [animal |-> [a EXCEPT !.weight =
                          a.weight + Mul(P(a).beta, available_food)],
          eaten |-> available_food]

\* Carnivore.prob_kill
prob_kill(c, herb_fit) ==
    IF prob_kill_zero THEN 0
    ELSE Div(fitness(c) - herb_fit, P(c).DeltaPhiMax)

\* Carnivore.carn_kills_herb with the draw r: TRUE for a kill, FALSE for the
\* None the method falls through to
carn_kills_herb(c, h, r) ==
    IF 0 < fitness(c) - fitness(h) /\ fitness(c) - fitness(h) < P(c).DeltaPhiMax
    THEN r < prob_kill(c, fitness(h))
    ELSE TRUE

RECURSIVE carn_eat(_, _, _, _)
\* Carnivore.eating: the loop over the herbivores not yet considered, with
\* eaten_food and surviving_herbivores so far; every outcome of the draws
carn_eat(c, herbivores, eaten_food, surviving) ==
    IF herbivores = <<>> THEN {[carn |-> c, herb |-> surviving]}
    ELSE LET h == Head(herbivores) IN
        IF fitness(c) <= fitness(h) \/ eaten_food = P(c).F
        THEN {[carn |-> c, herb |-> surviving \o herbivores]}
        ELSE UNION {
            IF carn_kills_herb(c, h, r)
            THEN IF eaten_food + h.weight > P(c).F
                 THEN carn_eat([c EXCEPT !.weight =
                                   c.weight + Mul(P(c).F - eaten_food, P(c).beta)],
                               Tail(herbivores), P(c).F, surviving)
                 ELSE carn_eat([c EXCEPT !.weight =
                                   c.weight + Mul(h.weight, P(c).beta)],
                               Tail(herbivores), eaten_food + h.weight, surviving)
            ELSE carn_eat(c, Tail(herbivores), eaten_food,
                          Append(surviving, h))
            : r \in Draws }

----------------------------------------------------------------------------
(* animals.py: the animal object with its cached fitness.  The object is   *)
(* the record of an animal with the field _fitness added; weight and age   *)
(* are written through the property setters and fitness is read through    *)
(* the property, as the methods of the class do.                           *)

\* self._fitness before the first read and after every reset
None == -1

\* Animal.__init__ for a weight and an age it accepts
Animal_init(id, cls, weight, age) ==
    [id |-> id, species |-> cls, weight |-> weight, age |-> age,
     _fitness |-> None]

\* a weight setter that forgets to reset the cache (a bug the setter does
\* not have)
weight_setter_keeps_cache(o, new_weight) == [o EXCEPT !.weight = new_weight]

\* the setter of the property weight
weight_setter(o, new_weight) ==
    [o EXCEPT !.weight = new_weight, !._fitness = None]

\* the setter of the property age
age_setter(o, new_age) == [o EXCEPT !.age = new_age, !._fitness = None]

\* the property fitness: the object after the read; the value read is its
\* _fitness
fitness_getter(o) ==
    IF o._fitness = None THEN [o EXCEPT !._fitness = fitness(o)] ELSE o

\* Animal.aging on the object
Animal_aging(o) == age_setter(o, aging(o).age)

\* Animal.weight_change on the object
Animal_weight_change(o) == weight_setter(o, weight_change(o).weight)

\* Animal.probability_birth on the object: fitness is read in the else branch
Animal_probability_birth(o, num_animals) ==
    [animal |-> IF o.weight < Mul(P(o).zeta, P(o).w_birth + P(o).sigma_birth)
                THEN o ELSE fitness_getter(o),
     returned |-> probability_birth(o, num_animals)]

\* Animal.birth on the object with the draws r and w_newborn
Animal_birth(o, num_animals, r, w_newborn, id) ==
    LET out == birth(o, num_animals, r, w_newborn, id)
        reader == Animal_probability_birth(o, num_animals).animal
    IN  IF out.newborn = <<>>
        THEN [mother |-> reader, newborn |-> <<>>]
        ELSE [mother |-> weight_setter(reader, out.mother.weight),
              newborn |-> <<Animal_init(id, o.species,
                                        out.newborn[1].weight, 0)>>]

\* Herbivore.eating on the object: what it raises, the object afterwards and
\* the amount returned
Herbivore_eating(o, available_food) ==
    IF available_food < 0
    THEN [raised |-> "ValueError", animal |-> o, returned |-> None]
    ELSE [raised |-> "",
          animal |-> weight_setter(o, herb_eat(o, available_food).animal.weight),
          returned |-> herb_eat(o, available_food).eaten]

\* list.index(x): the first position holding x
list_index(list, x) ==
    CHOOSE j \in 1..Len(list) :
        list[j] = x /\ \A m \in 1..(j - 1) : list[m] # x

\* the iteration without the cap of the intake at F: a kill always gives
\* beta times the whole weight of the prey (a bug Carnivore.eating does not
\* have)
eating_step_uncapped(c, herbivores, i, eaten_food, surviving, r) ==
    LET herb == herbivores[i]
        reader == fitness_getter(c)
    IN  IF fitness(c) <= fitness(herb) \/ eaten_food = P(c).F
        THEN [carn |-> reader, i |-> Len(herbivores) + 1,
              eaten_food |-> eaten_food,
              surviving |-> surviving \o
                  SubSeq(herbivores, list_index(herbivores, herb),
                         Len(herbivores)),
              verdict |-> "break"]
        ELSE IF carn_kills_herb(c, herb, r)
        THEN [carn |-> weight_setter(reader,
                  c.weight + Mul(herb.weight, P(c).beta)),
              i |-> i + 1, eaten_food |-> eaten_food + herb.weight,
              surviving |-> surviving, verdict |-> "killed"]
        ELSE [carn |-> reader, i |-> i + 1, eaten_food |-> eaten_food,
              surviving |-> Append(surviving, herb), verdict |-> "spared"]

\* the iteration without the comparison of the two fitnesses in its guard
\* (a bug Carnivore.eating does not have)
eating_step_unguarded(c, herbivores, i, eaten_food, surviving, r) ==
    LET herb == herbivores[i]
        reader == fitness_getter(c)
    IN  IF eaten_food = P(c).F
        THEN [carn |-> reader, i |-> Len(herbivores) + 1,
              eaten_food |-> eaten_food,
              surviving |-> surviving \o
                  SubSeq(herbivores, list_index(herbivores, herb),
                         Len(herbivores)),
              verdict |-> "break"]
        ELSE IF carn_kills_herb(c, herb, r)
        THEN IF eaten_food + herb.weight > P(c).F
             THEN [carn |-> weight_setter(reader,
                       c.weight + Mul(P(c).F - eaten_food, P(c).beta)),
                   i |-> i + 1, eaten_food |-> P(c).F,
                   surviving |-> surviving, verdict |-> "killed"]
             ELSE [carn |-> weight_setter(reader,
                       c.weight + Mul(herb.weight, P(c).beta)),
                   i |-> i + 1, eaten_food |-> eaten_food + herb.weight,
                   surviving |-> surviving, verdict |-> "killed"]
        ELSE [carn |-> reader, i |-> i + 1, eaten_food |-> eaten_food,
              surviving |-> Append(surviving, herb), verdict |-> "spared"]

\* one iteration of the for loop of Carnivore.eating, on herbivores[i] with
\* the draw r: the carnivore, the locals and what became of the herbivore
eating_step(c, herbivores, i, eaten_food, surviving, r) ==
    LET herb == herbivores[i]
        reader == fitness_getter(c)
    IN  IF fitness(c) <= fitness(herb) \/ eaten_food = P(c).F
        THEN [carn |-> reader, i |-> Len(herbivores) + 1,
              eaten_food |-> eaten_food,
              surviving |-> surviving \o
                  SubSeq(herbivores, list_index(herbivores, herb),
                         Len(herbivores)),
              verdict |-> "break"]
        ELSE IF carn_kills_herb(c, herb, r)
        THEN IF eaten_food + herb.weight > P(c).F
             THEN [carn |-> weight_setter(reader,
                       c.weight + Mul(P(c).F - eaten_food, P(c).beta)),
                   i |-> i + 1, eaten_food |-> P(c).F,
                   surviving |-> surviving, verdict |-> "killed"]
             ELSE [carn |-> weight_setter(reader,
                       c.weight + Mul(herb.weight, P(c).beta)),
                   i |-> i + 1, eaten_food |-> eaten_food + herb.weight,
                   surviving |-> surviving, verdict |-> "killed"]
        ELSE [carn |-> reader, i |-> i + 1, eaten_food |-> eaten_food,
              surviving |-> Append(surviving, herb), verdict |-> "spared"]

----------------------------------------------------------------------------
(* landscape.py: Landscape and its subclasses.  A cell is a record         *)
(* [kind, herb, carn, herb_immigrants, carn_immigrants, available_food];   *)
(* kind is the map letter of its class.                                    *)

\* Landscape.__init__ with the subclass constructors
new_cell(letter) ==
    [kind |-> letter, herb |-> <<>>, carn |-> <<>>,
     herb_immigrants |-> <<>>, carn_immigrants |-> <<>>,
     available_food |-> IF letter = "J" THEN lparams.Jungle.fmax
                        ELSE IF letter = "S" THEN lparams.Savannah.fmax
                        ELSE 0]

\* Landscape.animals_can_live_here with the Mountain and Ocean overrides
animals_can_live_here(cell) == cell.kind \notin {"M", "O"}

\* Landscape.total_num_animals
total_num_animals(cell, species) ==
    IF species = "Herbivore" \/ species = "herbivore"
    THEN Len(cell.herb) + Len(cell.herb_immigrants)
    ELSE Len(cell.carn) + Len(cell.carn_immigrants)

\* Landscape.get_available_fodder
get_available_fodder(cell, species) ==
    IF species = "Herbivore" \/ species = "herbivore"
    THEN cell.available_food
    ELSE SumSeq([i \in 1..Len(cell.herb) |-> cell.herb[i].weight])

RECURSIVE insert_sorted(_, _, _)
\* a placed behind every element of the sorted list that does not come after it
insert_sorted(a, sorted, descending) ==
    IF sorted = <<>> THEN <<a>>
    ELSE IF (IF descending THEN fitness(Head(sorted)) >= fitness(a)
                           ELSE fitness(Head(sorted)) <= fitness(a))
    THEN <<Head(sorted)>> \o insert_sorted(a, Tail(sorted), descending)
    ELSE <<a>> \o sorted

RECURSIVE sort_fitness(_, _, _)
\* list.sort(key=fitness, reverse=descending): a stable sort
sort_fitness(list, sorted, descending) ==
    IF list = <<>> THEN sorted
    ELSE sort_fitness(Tail(list), insert_sorted(Head(list), sorted, descending),
                      descending)

\* Landscape.fitness_sorting
fitness_sorting(cell, herb_descending, carn_descending) ==
    [cell EXCEPT !.herb = sort_fitness(cell.herb, <<>>, herb_descending),
                 !.carn = sort_fitness(cell.carn, <<>>, carn_descending)]

RECURSIVE herb_eating_loop(_, _, _)
\* the while loop of Landscape.herb_eating, with reduce_available
herb_eating_loop(cell, i, num_herb) ==
    IF i < num_herb /\ 0 < cell.available_food
    THEN LET meal == herb_eat(cell.herb[i + 1], cell.available_food)
         IN  herb_eating_loop(
                 [cell EXCEPT !.herb[i + 1] = meal.animal,
                              !.available_food = cell.available_food - meal.eaten],
                 i + 1, num_herb)
    ELSE cell

\* herb_eating with the herbivores taken by ascending fitness (an order
\* Landscape.herb_eating does not use)
herb_eating_ascending(cell) ==
    herb_eating_loop(fitness_sorting(cell, FALSE, TRUE), 0,
                     total_num_animals(cell, "herbivore"))

\* Landscape.herb_eating
herb_eating(cell) ==
    herb_eating_loop(fitness_sorting(cell, TRUE, TRUE), 0,
                     total_num_animals(cell, "herbivore"))

RECURSIVE carn_eating_loop_stops_at_equal(_, _, _)
\* the for loop stopping also at a herbivore exactly as fit as the carnivore
\* (a guard Landscape.carn_eating does not have)
carn_eating_loop_stops_at_equal(cell, i, invoked) ==
    IF i > Len(cell.carn) THEN {[cell |-> cell, invoked |-> invoked]}
    ELSE IF cell.herb = <<>> THEN {[cell |-> cell, invoked |-> invoked]}
    ELSE IF fitness(cell.carn[i]) <= fitness(cell.herb[1])
    THEN {[cell |-> cell, invoked |-> invoked]}
    ELSE UNION { carn_eating_loop_stops_at_equal(
                     [cell EXCEPT !.herb = o.herb, !.carn[i] = o.carn], i + 1,
                     Append(invoked, [carn |-> cell.carn[i],
                                      herbivores |-> cell.herb]))
                 : o \in carn_eat(cell.carn[i], cell.herb, 0, <<>>) }

RECURSIVE carn_eating_loop(_, _, _)
\* the for loop of Landscape.carn_eating from the i-th carnivore on; invoked
\* lists the calls carn.eating(self.herb) made so far, each with the
\* carnivore and the list it was given
carn_eating_loop(cell, i, invoked) ==
    IF i > Len(cell.carn) THEN {[cell |-> cell, invoked |-> invoked]}
    ELSE IF cell.herb = <<>> THEN {[cell |-> cell, invoked |-> invoked]}
    ELSE IF fitness(cell.carn[i]) < fitness(cell.herb[1])
    THEN {[cell |-> cell, invoked |-> invoked]}
    ELSE UNION { carn_eating_loop(
                     [cell EXCEPT !.herb = o.herb, !.carn[i] = o.carn], i + 1,
                     Append(invoked, [carn |-> cell.carn[i],
                                      herbivores |-> cell.herb]))
                 : o \in carn_eat(cell.carn[i], cell.herb, 0, <<>>) }

\* Landscape.carn_eating: every outcome of the draws
carn_eating(cell) ==
    { o.cell : o \in carn_eating_loop(fitness_sorting(cell, FALSE, TRUE), 1,
                                      <<>>) }

RECURSIVE newborns_loop_growing(_, _, _, _, _)
\* the for loop run over a list that the newborns join as they are born, so
\* that they are counted and get an attempt of their own (a bug
\* Landscape.newborns does not have)
newborns_loop_growing(animals, i, newborn_animals, nid, attempts) ==
    IF i > Len(animals)
    THEN {[animals |-> SubSeq(animals, 1, Len(animals) - Len(newborn_animals)),
           newborns |-> newborn_animals, next_id |-> nid,
           attempts |-> attempts]}
    ELSE UNION { LET b == birth(animals[i], Len(animals), r, w, nid)
                 IN  newborns_loop_growing(
                         [animals EXCEPT ![i] = b.mother] \o b.newborn, i + 1,
                         newborn_animals \o b.newborn, nid + Len(b.newborn),
                         Append(attempts, [animal |-> animals[i].id,
                                           num_animals |-> Len(animals)]))
                 : r \in Draws, w \in GaussDraws }

RECURSIVE newborns_loop(_, _, _, _, _)
\* the for loop of Landscape.newborns from the i-th animal on; attempts
\* lists the calls animal.birth(len(animals_procreating)) made so far
newborns_loop(animals, i, newborn_animals, nid, attempts) ==
    IF i > Len(animals)
    THEN {[animals |-> animals, newborns |-> newborn_animals, next_id |-> nid,
           attempts |-> attempts]}
    ELSE UNION { LET b == birth(animals[i], Len(animals), r, w, nid)
                 IN  newborns_loop([animals EXCEPT ![i] = b.mother], i + 1,
                                   newborn_animals \o b.newborn,
                                   nid + Len(b.newborn),
                                   Append(attempts,
                                          [animal |-> animals[i].id,
                                           num_animals |-> Len(animals)]))
                 : r \in Draws, w \in GaussDraws }

\* Landscape.newborns
newborns(animals_procreating, nid) ==
    newborns_loop(animals_procreating, 1, <<>>, nid, <<>>)

\* Landscape.animal_birth: every outcome [cell, next_id], with the birth
\* attempts made for each species
animal_birth(cell, nid) ==
    UNION { { [cell |-> [cell EXCEPT !.herb = nh.animals \o nh.newborns,
                                     !.carn = nc.animals \o nc.newborns],
               next_id |-> nc.next_id,
               attempts |-> [herb |-> nh.attempts, carn |-> nc.attempts]]
              : nc \in newborns(cell.carn, nh.next_id) }
            : nh \in newborns(cell.herb, nid) }

\* Landscape.neighbour_locations: north, east, south, west
neighbour_locations(loc) ==
    << <<loc[1] - 1, loc[2]>>, <<loc[1], loc[2] + 1>>,
       <<loc[1] + 1, loc[2]>>, <<loc[1], loc[2] - 1>> >>

\* Landscape.relative_abundance_of_fodder
relative_abundance_of_fodder(neighbours, animal, species) ==
    [j \in 1..Len(neighbours) |->
        Div(get_available_fodder(neighbours[j], species),
            (total_num_animals(neighbours[j], species) + 1) * P(animal).F)]

\* a propensity that does not ask whether animals can live in the
\* neighbour (a bug Landscape.propensity does not have)
propensity_everywhere(neighbours, animal, ek) ==
    [j \in 1..Len(neighbours) |-> exp(Mul(P(animal).lambda, ek[j]))]

\* Landscape.propensity
propensity(neighbours, animal, ek) ==
    [j \in 1..Len(neighbours) |->
        IF ~animals_can_live_here(neighbours[j]) THEN 0
        ELSE exp(Mul(P(animal).lambda, ek[j]))]

\* Landscape.prob_move: each quotient exp_ekj / sum(exp_ek) is rounded as
\* every quotient of the model is, so the four probabilities can sum to a
\* little less than one, as the floats of the code can
prob_move(neighbours, animal, species) ==
    LET ek == relative_abundance_of_fodder(neighbours, animal, species)
        exp_ek == propensity(neighbours, animal, ek)
    IN  IF SumSeq(exp_ek) = 0
        THEN <<0, 0, 0, 0>>
        ELSE [j \in 1..Len(exp_ek) |-> Div(exp_ek[j], SumSeq(exp_ek))]

RECURSIVE moves_to_loop_strict(_, _, _, _)
\* the while loop going on only while prob_acum < rnd (a comparison
\* Landscape.animal_moves_to does not use)
moves_to_loop_strict(prob, rnd, pos, prob_acum) ==
    IF prob_acum < rnd
    THEN IF pos + 1 = 3 THEN 3
         ELSE moves_to_loop_strict(prob, rnd, pos + 1,
                                   prob_acum + prob[pos + 2])
    ELSE pos

RECURSIVE moves_to_loop(_, _, _, _)
\* the while loop of Landscape.animal_moves_to
moves_to_loop(prob, rnd, pos, prob_acum) ==
    IF prob_acum <= rnd
    THEN IF pos + 1 = 3 THEN 3
         ELSE moves_to_loop(prob, rnd, pos + 1, prob_acum + prob[pos + 2])
    ELSE pos

\* Landscape.animal_moves_to with the draw rnd: the position 0..3 in the
\* neighbour list.  The ValueError of its first lines needs a sum that is
\* 5e-16 away from one, more than the rounding of four quotients and three
\* additions gives, and is not modelled.
animal_moves_to(prob, rnd) == moves_to_loop(prob, rnd, 0, prob[1])

\* Landscape.add_herb_immigrant with a mistake: the immigrant is not kept
add_herb_immigrant_lost(cell, herb_immigrant) == cell

\* Landscape.add_herb_immigrant with a mistake: the immigrant joins the
\* residents at once
add_herb_immigrant_resident(cell, herb_immigrant) ==
    [cell EXCEPT !.herb = Append(cell.herb, herb_immigrant)]

\* Landscape.add_herb_immigrant
add_herb_immigrant(cell, herb_immigrant) ==
    [cell EXCEPT !.herb_immigrants = Append(cell.herb_immigrants, herb_immigrant)]

\* Landscape.add_carn_immigrant
add_carn_immigrant(cell, carn_immigrant) ==
    [cell EXCEPT !.carn_immigrants = Append(cell.carn_immigrants, carn_immigrant)]

\* Landscape.add_immigrants_to_pop
add_immigrants_to_pop(cell) ==
    [cell EXCEPT !.herb = cell.herb \o cell.herb_immigrants,
                 !.herb_immigrants = <<>>,
                 !.carn = cell.carn \o cell.carn_immigrants,
                 !.carn_immigrants = <<>>]

RECURSIVE migration_loop(_, _, _, _, _)
\* the for loop of Landscape.herb_migration (species = "herbivore") and of
\* Landscape.carn_migration (species = "carnivore") from the i-th animal on,
\* with the assignment of the remaining animals that ends the method: every
\* outcome of the draws, as the cell and its neighbours afterwards
migration_loop(cell, neighbours, species, i, remaining_animals) ==
    LET animals == IF species = "herbivore" THEN cell.herb ELSE cell.carn
    IN  IF i > Len(animals)
        THEN {[cell |-> IF species = "herbivore"
                        THEN [cell EXCEPT !.herb = remaining_animals]
                        ELSE [cell EXCEPT !.carn = remaining_animals],
               neighbours |-> neighbours]}
        ELSE UNION {
               IF r < prob_migration(animals[i]) /\ SumSeq(prob) # 0
               THEN UNION {
                      migration_loop(cell,
                          [neighbours EXCEPT ![pos + 1] =
                              IF species = "herbivore"
                              THEN add_herb_immigrant(@, animals[i])
                              ELSE add_carn_immigrant(@, animals[i])],
                          species, i + 1, remaining_animals)
                      : pos \in {animal_moves_to(prob, rnd)
                                 : rnd \in MoveDraws} }
               ELSE migration_loop(cell, neighbours, species, i + 1,
                        Append(remaining_animals, animals[i]))
               : r \in Draws,
                 prob \in {prob_move(neighbours, animals[i], species)} }

\* Landscape.animal_aging
animal_aging(cell) ==
    [cell EXCEPT !.herb = [i \in 1..Len(cell.herb) |-> aging(cell.herb[i])],
                 !.carn = [i \in 1..Len(cell.carn) |-> aging(cell.carn[i])]]

\* Landscape.animal_weight_change
animal_weight_change(cell) ==
    [cell EXCEPT
        !.herb = [i \in 1..Len(cell.herb) |-> weight_change(cell.herb[i])],
        !.carn = [i \in 1..Len(cell.carn) |-> weight_change(cell.carn[i])]]

RECURSIVE survivors(_)
\* [a for a in animals if not a.death()]: every outcome of the draws
survivors(animals) ==
    IF animals = <<>> THEN {<<>>}
    ELSE UNION { { IF death(Head(animals), r) THEN rest
                   ELSE <<Head(animals)>> \o rest : r \in Draws }
                 : rest \in survivors(Tail(animals)) }

\* Landscape.animal_death: every outcome of the draws
animal_death(cell) ==
    { [cell EXCEPT !.herb = sh, !.carn = sc]
      : sh \in survivors(cell.herb), sc \in survivors(cell.carn) }

RECURSIVE add_population_loop(_, _, _, _)
\* the for loop of Landscape.add_population from the i-th animal on
add_population_loop(cell, pop, i, nid) ==
    IF i > Len(pop) THEN [cell |-> cell, next_id |-> nid, raised |-> ""]
    ELSE LET animal == pop[i]
             cls == class_of(animal.species)
         IN  IF cls = "" \/ init_raises(animal.weight, animal.age)
             THEN [cell |-> cell, next_id |-> nid, raised |-> "ValueError"]
             ELSE IF cls = "Herbivore"
             THEN add_population_loop(
                      [cell EXCEPT !.herb = Append(cell.herb,
                          new_animal(nid, cls, animal.weight, animal.age))],
                      pop, i + 1, nid + 1)
             ELSE add_population_loop(
                      [cell EXCEPT !.carn = Append(cell.carn,
                          new_animal(nid, cls, animal.weight, animal.age))],
                      pop, i + 1, nid + 1)

\* Landscape.add_population, Mountain.add_population, Ocean.add_population
add_population(cell, pop, nid) ==
    IF cell.kind \in {"M", "O"}
    THEN [cell |-> cell, next_id |-> nid, raised |-> "ValueError"]
    ELSE add_population_loop(cell, pop, 1, nid)

\* a growth of the Savannah by alpha * fmax whatever is there (a formula
\* Savannah.food_growth does not use)
food_growth_overshoot(cell) ==
    IF cell.kind = "J"
    THEN [cell EXCEPT !.available_food = lparams.Jungle.fmax]
    ELSE IF cell.kind = "S"
    THEN [cell EXCEPT !.available_food =
             cell.available_food +
             Mul(lparams.Savannah.alpha, lparams.Savannah.fmax)]
    ELSE cell

\* Landscape.food_growth, Jungle.food_growth, Savannah.food_growth
food_growth(cell) ==
    IF cell.kind = "J"
    THEN [cell EXCEPT !.available_food = lparams.Jungle.fmax]
    ELSE IF cell.kind = "S"
    THEN [cell EXCEPT !.available_food =
             cell.available_food +
             Mul(lparams.Savannah.alpha,
                 lparams.Savannah.fmax - cell.available_food)]
    ELSE cell

----------------------------------------------------------------------------
(* island_nature.py: Island.  Locations are the 0-indexed (row, col) pairs *)
(* of island_map.                                                          *)

\* the geography string of the modelled island, split into rows
Geogr ==
    << <<"O", "O", "O", "O">>,
       <<"O", "J", "S", "O">>,
       <<"O", "D", "M", "O">>,
       <<"O", "O", "O", "O">> >>

NumRows == Len(Geogr)

NumCols == Len(Geogr[1])

Locs == (0..(NumRows - 1)) \X (0..(NumCols - 1))

\* the order of "for row in self.island_map: for cell in row"
CellOrder ==
    [i \in 1..(NumRows * NumCols) |-> <<(i - 1) \div NumCols, (i - 1) % NumCols>>]

\* Island.__init__: the cells built from the map letters
new_island(geogr) == [loc \in Locs |-> new_cell(geogr[loc[1] + 1][loc[2] + 1])]

\* the letters Island.__init__ has a landscape class for
landscape_letters == {"J", "S", "D", "M", "O"}

\* max([len(stri) for stri in self.geogr]) of a non-empty list of rows
max_len(rows) ==
    CHOOSE n \in {Len(rows[r]) : r \in 1..Len(rows)} :
        \A r \in 1..Len(rows) : Len(rows[r]) <= n

\* the loops of Island.__init__ that build island_map: what they raise, and
\* the map they leave
build_island_map(geogr) ==
    IF \E r \in 1..Len(geogr) : \E c \in 1..Len(geogr[1]) :
          geogr[r][c] \notin landscape_letters
    THEN [raised |-> "Landscape type does not exist on the island",
          island_map |-> <<>>]
    ELSE [raised |-> "",
          island_map |->
              [loc \in (0..(Len(geogr) - 1)) \X (0..(Len(geogr[1]) - 1)) |->
                  new_cell(geogr[loc[1] + 1][loc[2] + 1])]]

\* Island.__init__ without the loop over the last row (a bug the
\* constructor does not have)
Island_init_open_south(geogr) ==
    IF geogr = <<>>
    THEN [raised |-> "max() arg is an empty sequence", island_map |-> <<>>]
    ELSE IF \E r \in 1..Len(geogr) : Len(geogr[r]) # max_len(geogr)
    THEN [raised |-> "Island has to be a rectangle", island_map |-> <<>>]
    ELSE IF \E c \in 1..Len(geogr[1]) : geogr[1][c] # "O"
    THEN [raised |-> "Island must be surrounded by ocean", island_map |-> <<>>]
    ELSE IF \E r \in 2..(Len(geogr) - 1) :
               geogr[r][1] # "O" \/ geogr[r][Len(geogr[r])] # "O"
    THEN [raised |-> "Island must be surrounded by ocean", island_map |-> <<>>]
    ELSE build_island_map(geogr)

\* Island.__init__ on the rows geogr.split() gives: the ValueError it raises
\* ("" for none) and the island_map it leaves
Island_init(geogr) ==
    IF geogr = <<>>
    THEN [raised |-> "max() arg is an empty sequence", island_map |-> <<>>]
    ELSE IF \E r \in 1..Len(geogr) : Len(geogr[r]) # max_len(geogr)
    THEN [raised |-> "Island has to be a rectangle", island_map |-> <<>>]
    ELSE IF \E c \in 1..Len(geogr[1]) : geogr[1][c] # "O"
    THEN [raised |-> "Island must be surrounded by ocean", island_map |-> <<>>]
    ELSE IF \E c \in 1..Len(geogr[Len(geogr)]) : geogr[Len(geogr)][c] # "O"
    THEN [raised |-> "Island must be surrounded by ocean", island_map |-> <<>>]
    ELSE IF \E r \in 2..(Len(geogr) - 1) :
               geogr[r][1] # "O" \/ geogr[r][Len(geogr[r])] # "O"
    THEN [raised |-> "Island must be surrounded by ocean", island_map |-> <<>>]
    ELSE build_island_map(geogr)

\* Python's list index: the position a valid index i names in a list of
\* length n, negative indices counting from the end
py_index(i, n) == IF i < 0 THEN n + i ELSE i

\* place_animals with a mistake: pop['loc'] is read as a 0-indexed position
place_record_zero_indexed(m, pop, nid) ==
    LET row == pop.loc[1]
        col == pop.loc[2]
    IN  IF (NumRows - 1) < row \/ (NumCols - 1) < col
        THEN [map |-> m, next_id |-> nid, raised |-> "ValueError"]
        ELSE IF row < -NumRows \/ col < -NumCols
        THEN [map |-> m, next_id |-> nid, raised |-> "IndexError"]
        ELSE LET target == <<py_index(row, NumRows), py_index(col, NumCols)>>
             IN  IF animals_can_live_here(m[target])
                 THEN LET added == add_population(m[target], pop.pop, nid)
                      IN  [map |-> [m EXCEPT ![target] = added.cell],
                           next_id |-> added.next_id,
                           raised |-> added.raised]
                 ELSE [map |-> m, next_id |-> nid, raised |-> "ValueError"]

\* one iteration of the for loop of Island.place_animals, on record pop
place_record(m, pop, nid) ==
    LET row == pop.loc[1] - 1
        col == pop.loc[2] - 1
    IN  IF (NumRows - 1) < row \/ (NumCols - 1) < col
        THEN [map |-> m, next_id |-> nid, raised |-> "ValueError"]
        ELSE IF row < -NumRows \/ col < -NumCols
        THEN [map |-> m, next_id |-> nid, raised |-> "IndexError"]
        ELSE LET target == <<py_index(row, NumRows), py_index(col, NumCols)>>
             IN  IF animals_can_live_here(m[target])
                 THEN LET added == add_population(m[target], pop.pop, nid)
                      IN  [map |-> [m EXCEPT ![target] = added.cell],
                           next_id |-> added.next_id,
                           raised |-> added.raised]
                 ELSE [map |-> m, next_id |-> nid, raised |-> "ValueError"]

\* Island.number_of_animals
number_of_animals(m) ==
    << SumSeq([i \in 1..Len(CellOrder) |->
                  total_num_animals(m[CellOrder[i]], "herbivore")]),
       SumSeq([i \in 1..Len(CellOrder) |->
                  total_num_animals(m[CellOrder[i]], "carnivore")]) >>

\* Island.food_growth_in_all_cells
food_growth_in_all_cells(m) == [loc \in Locs |-> food_growth(m[loc])]

\* Island.all_herb_eating
all_herb_eating(m) == [loc \in Locs |-> herb_eating(m[loc])]

RECURSIVE all_carn_eating(_, _)
\* Island.all_carn_eating over the cells still to visit: every outcome
all_carn_eating(m, locs) ==
    IF locs = <<>> THEN {m}
    ELSE UNION { all_carn_eating([m EXCEPT ![Head(locs)] = c], Tail(locs))
                 : c \in carn_eating(m[Head(locs)]) }

RECURSIVE animals_give_birth(_, _, _)
\* Island.animals_give_birth over the cells still to visit: every outcome
animals_give_birth(m, nid, locs) ==
    IF locs = <<>> THEN {[map |-> m, next_id |-> nid]}
    ELSE UNION { animals_give_birth([m EXCEPT ![Head(locs)] = b.cell],
                                    b.next_id, Tail(locs))
                 : b \in animal_birth(m[Head(locs)], nid) }

\* Island.randomize_cell_structure: every order random.shuffle can produce
randomize_cell_structure ==
    LET locations == (1..(NumRows - 2)) \X (1..(NumCols - 2))
        n == Cardinality(locations)
    IN  {order \in [1..n -> locations] :
            \A i, j \in 1..n : i # j => order[i] # order[j]}

\* Island.get_neighbours
get_neighbours(m, loc_neighbours) ==
    [j \in 1..Len(loc_neighbours) |-> m[loc_neighbours[j]]]

\* Island.all_animals_aging
all_animals_aging(m) == [loc \in Locs |-> animal_aging(m[loc])]

\* Island.all_animals_lose_weight
all_animals_lose_weight(m) == [loc \in Locs |-> animal_weight_change(m[loc])]

RECURSIVE animals_die(_, _)
\* Island.animals_die over the cells still to visit: every outcome
animals_die(m, locs) ==
    IF locs = <<>> THEN {m}
    ELSE UNION { animals_die([m EXCEPT ![Head(locs)] = c], Tail(locs))
                 : c \in animal_death(m[Head(locs)]) }

\* the animals a cell holds, resident or staged
cell_animals(cell) ==
    Range(cell.herb) \cup Range(cell.carn) \cup
    Range(cell.herb_immigrants) \cup Range(cell.carn_immigrants)

\* animal id -> the cell that holds it
locations(m) ==
    LET ids == UNION {{a.id : a \in cell_animals(m[loc])} : loc \in Locs}
    IN  [id \in ids |->
            CHOOSE loc \in Locs : \E a \in cell_animals(m[loc]) : a.id = id]

----------------------------------------------------------------------------
(* The simulation: records placed on the island, then annual cycles.       *)

NoCall == [op |-> "none", arg |-> <<>>, raised |-> "", before |-> <<>>]

\* the parameter settings of a run: the tables set_parameters leaves, and
\* whether Carnivore.prob_kill is patched to 0
Settings ==
    { [params |->
          [Herbivore |-> Animal_set_parameters(
                             HerbivoreParams, [gamma |-> 0, omega |-> 0]).table,
           Carnivore |-> Animal_set_parameters(
                             CarnivoreParams, [gamma |-> 0, omega |-> 0]).table],
       prob_kill_zero |-> TRUE],
      [params |-> [Herbivore |-> HerbivoreParams, Carnivore |-> CarnivoreParams],
       prob_kill_zero |-> FALSE] }

\* the landscape tables of a run
LandscapeSettings ==
    [Jungle |-> Landscape_set_parameters(JungleParams, [fmax |-> 30000]).table,
     Savannah |-> Landscape_set_parameters(SavannahParams,
                                           [fmax |-> 20000]).table]

\* the records place_animals is given in a simulation run (1-indexed loc)
SimRecords ==
    { [loc |-> <<2, 2>>,
       pop |-> << [species |-> "Herbivore", age |-> 0, weight |-> 40000],
                  [species |-> "Herbivore", age |-> 5, weight |-> 20000] >>],
      [loc |-> <<2, 3>>,
       pop |-> << [species |-> "Herbivore", age |-> 0, weight |-> 20000] >>],
      [loc |-> <<2, 3>>,
       pop |-> << [species |-> "Carnivore", age |-> 5, weight |-> 20000] >>],
      [loc |-> <<2, 2>>,
       pop |-> << [species |-> "Carnivore", age |-> 5, weight |-> 20000] >>] }

InitWith(tables, ltables, patched) ==
    /\ params = tables
    /\ lparams = ltables
    /\ prob_kill_zero = patched
    /\ island_map = new_island(Geogr)
    /\ next_id = 1
    /\ pc = "idle"
    /\ year = 0
    /\ rnd_island = <<>>
    /\ cur = 0
    /\ k = 0
    /\ remaining = <<>>
    /\ ncalls = 0
    /\ call = NoCall
    /\ placed = <<0, 0>>
    /\ phases = <<>>
    /\ origin = <<>>
    /\ place_of = <<>>
    /\ pre_pass = <<>>
    /\ subject = <<>>
    /\ landscape = <<>>

Init ==
    \E s \in Settings : InitWith(s.params, LandscapeSettings, s.prob_kill_zero)

class_vars == <<params, lparams, prob_kill_zero>>

migrate_vars == <<rnd_island, cur, k, remaining, origin, place_of, pre_pass>>

\* Island.place_animals: the loop's iteration on the record pop
Place(pop) ==
    /\ pc = "idle"
    /\ ncalls < MaxPlaced
    /\ LET out == place_record(island_map, pop, next_id)
       IN  /\ island_map' = out.map
           /\ next_id' = out.next_id
           /\ call' = [op |-> "place_animals", arg |-> pop,
                       raised |-> out.raised, before |-> island_map]
           /\ placed' =
                 <<placed[1] + number_of_animals(out.map)[1]
                             - number_of_animals(island_map)[1],
                   placed[2] + number_of_animals(out.map)[2]
                             - number_of_animals(island_map)[2]>>
    /\ ncalls' = ncalls + 1
    /\ UNCHANGED <<class_vars, subject, landscape, pc, year, phases, migrate_vars>>

PlaceAnimals == \E pop \in SimRecords : Place(pop)

\* annual_cycle: self.food_growth_in_all_cells()
FoodGrowth ==
    /\ pc = "idle"
    /\ year < MaxYears
    /\ island_map' = food_growth_in_all_cells(island_map)
    /\ pc' = "all_herb_eating"
    /\ phases' = <<"food_growth">>
    /\ UNCHANGED <<class_vars, subject, landscape, next_id, year, ncalls, call, placed,
                   migrate_vars>>

\* annual_cycle with a mistake: all_carn_eating is not called
HerbEatingThenBirth ==
    /\ pc = "all_herb_eating"
    /\ island_map' = all_herb_eating(island_map)
    /\ pc' = "animals_give_birth"
    /\ phases' = Append(phases, "herb_eating")
    /\ UNCHANGED <<class_vars, subject, landscape, next_id, year, ncalls, call, placed,
                   migrate_vars>>

\* annual_cycle: self.all_herb_eating()
HerbEating ==
    /\ pc = "all_herb_eating"
    /\ island_map' = all_herb_eating(island_map)
    /\ pc' = "all_carn_eating"
    /\ phases' = Append(phases, "herb_eating")
    /\ UNCHANGED <<class_vars, subject, landscape, next_id, year, ncalls, call, placed, migrate_vars>>

\* annual_cycle: self.all_carn_eating()
CarnEating ==
    /\ pc = "all_carn_eating"
    /\ island_map' \in all_carn_eating(island_map, CellOrder)
    /\ pc' = "animals_give_birth"
    /\ phases' = Append(phases, "carn_eating")
    /\ UNCHANGED <<class_vars, subject, landscape, next_id, year, ncalls, call, placed, migrate_vars>>

\* annual_cycle: self.animals_give_birth()
Birth ==
    /\ pc = "animals_give_birth"
    /\ \E b \in animals_give_birth(island_map, next_id, CellOrder) :
          /\ island_map' = b.map
          /\ next_id' = b.next_id
    /\ pc' = "animals_migrate"
    /\ phases' = Append(phases, "birth")
    /\ UNCHANGED <<class_vars, subject, landscape, year, ncalls, call, placed, migrate_vars>>

\* the loops "for cell in rnd_island: cell.herb_migration(neighbours)" and
\* "... cell.carn_migration(neighbours)" from position from on: the position
\* of the first cell whose list has an animal to draw for, the visit of a
\* cell with none changing nothing; past the end when there is no such cell
next_cell(m, order, from, species) ==
    LET todo == {i \in from..Len(order) :
                    IF species = "herbivore" THEN m[order[i]].herb # <<>>
                    ELSE m[order[i]].carn # <<>>}
    IN  IF todo = {} THEN Len(order) + 1
        ELSE CHOOSE i \in todo : \A j \in todo : i <= j

\* animals_migrate: rnd_island = self.randomize_cell_structure()
Shuffle ==
    /\ pc = "animals_migrate"
    /\ rnd_island' \in randomize_cell_structure
    /\ cur' = next_cell(island_map, rnd_island', 1, "herbivore")
    /\ k' = 1
    /\ remaining' = <<>>
    /\ origin' = locations(island_map)
    /\ place_of' = locations(island_map)
    /\ pre_pass' = island_map
    /\ pc' = "herb_migration"
    /\ phases' = Append(phases, "migration")
    /\ UNCHANGED <<class_vars, subject, landscape, island_map, next_id, year, ncalls, call, placed>>

\* Landscape.herb_migration of the visited cell: the loop's iteration on
\* its k-th herbivore
HerbDraw ==
    /\ pc = "herb_migration"
    /\ cur <= Len(rnd_island)
    /\ k <= Len(island_map[rnd_island[cur]].herb)
    /\ LET herb == island_map[rnd_island[cur]].herb[k]
           nlocs == neighbour_locations(rnd_island[cur])
           neighbours == get_neighbours(island_map, nlocs)
       IN  \E r \in Draws, rnd \in MoveDraws :
              LET prob == prob_move(neighbours, herb, "herbivore")
                  dest == nlocs[animal_moves_to(prob, rnd) + 1]
              IN  IF r < prob_migration(herb) /\ SumSeq(prob) # 0
                  THEN /\ island_map' =
                            [island_map EXCEPT
                                ![dest] = add_herb_immigrant(@, herb)]
                       /\ place_of' = [place_of EXCEPT ![herb.id] = dest]
                       /\ UNCHANGED remaining
                  ELSE /\ remaining' = Append(remaining, herb)
                       /\ UNCHANGED <<island_map, place_of>>
    /\ k' = k + 1
    /\ UNCHANGED <<class_vars, subject, landscape, next_id, pc, year, ncalls, call, placed, phases,
                   rnd_island, cur, origin, pre_pass>>

\* Landscape.herb_migration of the visited cell: self.herb = remaining_herb,
\* and the loop of animals_migrate goes to the next cell
HerbCellDone ==
    /\ pc = "herb_migration"
    /\ cur <= Len(rnd_island)
    /\ k > Len(island_map[rnd_island[cur]].herb)
    /\ island_map' = [island_map EXCEPT ![rnd_island[cur]].herb = remaining]
    /\ cur' = next_cell(island_map, rnd_island, cur + 1, "herbivore")
    /\ k' = 1
    /\ remaining' = <<>>
    /\ UNCHANGED <<class_vars, subject, landscape, next_id, pc, year, ncalls, call, placed, phases,
                   rnd_island, origin, place_of, pre_pass>>

\* animals_migrate: the first "for cell in rnd_island:
\* cell.add_immigrants_to_pop()"
HerbCommit ==
    /\ pc = "herb_migration"
    /\ cur > Len(rnd_island)
    /\ island_map' =
          [loc \in Locs |->
              IF loc \in Range(rnd_island)
              THEN add_immigrants_to_pop(island_map[loc])
              ELSE island_map[loc]]
    /\ pre_pass' = island_map'
    /\ pc' = "carn_migration"
    /\ cur' = next_cell(island_map', rnd_island, 1, "carnivore")
    /\ k' = 1
    /\ UNCHANGED <<class_vars, subject, landscape, next_id, year, ncalls, call, placed, phases,
                   rnd_island, remaining, origin, place_of>>

\* Landscape.carn_migration of the visited cell: the loop's iteration on
\* its k-th carnivore
CarnDraw ==
    /\ pc = "carn_migration"
    /\ cur <= Len(rnd_island)
    /\ k <= Len(island_map[rnd_island[cur]].carn)
    /\ LET carn == island_map[rnd_island[cur]].carn[k]
           nlocs == neighbour_locations(rnd_island[cur])
           neighbours == get_neighbours(island_map, nlocs)
       IN  \E r \in Draws, rnd \in MoveDraws :
              LET prob == prob_move(neighbours, carn, "carnivore")
                  dest == nlocs[animal_moves_to(prob, rnd) + 1]
              IN  IF r < prob_migration(carn) /\ SumSeq(prob) # 0
                  THEN /\ island_map' =
                            [island_map EXCEPT
                                ![dest] = add_carn_immigrant(@, carn)]
                       /\ place_of' = [place_of EXCEPT ![carn.id] = dest]
                       /\ UNCHANGED remaining
                  ELSE /\ remaining' = Append(remaining, carn)
                       /\ UNCHANGED <<island_map, place_of>>
    /\ k' = k + 1
    /\ UNCHANGED <<class_vars, subject, landscape, next_id, pc, year, ncalls, call, placed, phases,
                   rnd_island, cur, origin, pre_pass>>

\* Landscape.carn_migration of the visited cell: self.carn = remaining_carn
CarnCellDone ==
    /\ pc = "carn_migration"
    /\ cur <= Len(rnd_island)
    /\ k > Len(island_map[rnd_island[cur]].carn)
    /\ island_map' = [island_map EXCEPT ![rnd_island[cur]].carn = remaining]
    /\ cur' = next_cell(island_map, rnd_island, cur + 1, "carnivore")
    /\ k' = 1
    /\ remaining' = <<>>
    /\ UNCHANGED <<class_vars, subject, landscape, next_id, pc, year, ncalls, call, placed, phases,
                   rnd_island, origin, place_of, pre_pass>>

\* animals_migrate: the second "for cell in rnd_island:
\* cell.add_immigrants_to_pop()"; animals_migrate returns
CarnCommit ==
    /\ pc = "carn_migration"
    /\ cur > Len(rnd_island)
    /\ island_map' =
          [loc \in Locs |->
              IF loc \in Range(rnd_island)
              THEN add_immigrants_to_pop(island_map[loc])
              ELSE island_map[loc]]
    /\ pc' = "all_animals_aging"
    /\ rnd_island' = <<>>
    /\ cur' = 0
    /\ k' = 0
    /\ pre_pass' = <<>>
    /\ UNCHANGED <<class_vars, subject, landscape, next_id, year, ncalls, call, placed, phases,
                   remaining, origin, place_of>>

\* annual_cycle: self.all_animals_aging()
Aging ==
    /\ pc = "all_animals_aging"
    /\ island_map' = all_animals_aging(island_map)
    /\ pc' = "all_animals_lose_weight"
    /\ phases' = Append(phases, "aging")
    /\ origin' = <<>>
    /\ place_of' = <<>>
    /\ UNCHANGED <<class_vars, subject, landscape, next_id, year, ncalls, call, placed, rnd_island, cur,
                   k, remaining, pre_pass>>

\* annual_cycle: self.all_animals_lose_weight()
WeightLoss ==
    /\ pc = "all_animals_lose_weight"
    /\ island_map' = all_animals_lose_weight(island_map)
    /\ pc' = "animals_die"
    /\ phases' = Append(phases, "weight_loss")
    /\ UNCHANGED <<class_vars, subject, landscape, next_id, year, ncalls, call, placed, migrate_vars>>

\* annual_cycle: self.animals_die(); annual_cycle returns
Death ==
    /\ pc = "animals_die"
    /\ island_map' \in animals_die(island_map, CellOrder)
    /\ pc' = "idle"
    /\ year' = year + 1
    /\ phases' = Append(phases, "death")
    /\ UNCHANGED <<class_vars, subject, landscape, next_id, ncalls, call, placed, migrate_vars>>

Next ==
    \/ PlaceAnimals
    \/ FoodGrowth
    \/ HerbEating
    \/ CarnEating
    \/ Birth
    \/ Shuffle
    \/ HerbDraw
    \/ HerbCellDone
    \/ HerbCommit
    \/ CarnDraw
    \/ CarnCellDone
    \/ CarnCommit
    \/ Aging
    \/ WeightLoss
    \/ Death

Spec == Init /\ [][Next]_vars

----------------------------------------------------------------------------
(* Placement alone: place_animals on records of every kind.                *)

\* the locations (1-indexed, as given by the caller) of the records tried:
\* Jungle, Desert, Mountain, Ocean, beyond the grid, and zero or negative
LocInputs ==
    { <<2, 2>>, <<3, 2>>, <<3, 3>>, <<1, 1>>, <<5, 5>>, <<2, 5>>,
      <<-1, 2>>, <<0, 2>>, <<-4, 2>> }

\* the animal dictionaries of the records tried
AnimalInputs ==
    { [species |-> "Herbivore", age |-> 0, weight |-> 20000],
      [species |-> "carnivore", age |-> 5, weight |-> 20000],
      [species |-> "Zebra", age |-> 0, weight |-> 20000],
      [species |-> "Herbivore", age |-> 0, weight |-> 0],
      [species |-> "Carnivore", age |-> -1, weight |-> 20000] }

PopInputs == UNION {[1..n -> AnimalInputs] : n \in 1..MaxPop}

RecordInputs == {[loc |-> l, pop |-> q] : l \in LocInputs, q \in PopInputs}

InitPlace ==
    InitWith([Herbivore |-> HerbivoreParams, Carnivore |-> CarnivoreParams],
             LandscapeSettings, FALSE)

PlaceRecord == \E pop \in RecordInputs : Place(pop)

NextPlace == PlaceRecord

SpecPlace == InitPlace /\ [][NextPlace]_vars

----------------------------------------------------------------------------
(* Parameters alone: set_parameters on the animal and landscape classes.   *)

\* keys and values (in thousandths) of the dictionaries tried
AnimalKeys == {"eta", "F", "DeltaPhiMax", "alf"}

LandscapeKeys == {"fmax", "alpha", "alf"}

ValueInputs == {-1000, 0, 500, 2000}

dicts(keys) ==
    UNION {[d -> ValueInputs] : d \in {t \in SUBSET keys : Cardinality(t) <= MaxKeys}}

InitParams ==
    InitWith([Herbivore |-> HerbivoreParams, Carnivore |-> CarnivoreParams],
             [Jungle |-> JungleParams, Savannah |-> SavannahParams], FALSE)

set_vars ==
    <<prob_kill_zero, island_map, next_id, pc, year, placed, phases,
      migrate_vars, subject, landscape>>

\* Herbivore.set_parameters(new_params), Carnivore.set_parameters(new_params)
SetAnimalParameters ==
    /\ ncalls < MaxCalls
    /\ \E cls \in DOMAIN params, new_params \in dicts(AnimalKeys) :
          LET out == Animal_set_parameters(params[cls], new_params)
          IN  /\ params' = [params EXCEPT ![cls] = out.table]
              /\ call' = [op |-> "set_parameters",
                          arg |-> [cls |-> cls, new_params |-> new_params],
                          raised |-> IF out.raised THEN "ValueError" ELSE "",
                          before |-> [params |-> params, lparams |-> lparams]]
    /\ ncalls' = ncalls + 1
    /\ UNCHANGED <<lparams, set_vars>>

\* Jungle.set_parameters(new_params), Savannah.set_parameters(new_params)
SetLandscapeParameters ==
    /\ ncalls < MaxCalls
    /\ \E cls \in DOMAIN lparams, new_params \in dicts(LandscapeKeys) :
          LET out == Landscape_set_parameters(lparams[cls], new_params)
          IN  /\ lparams' = [lparams EXCEPT ![cls] = out.table]
              /\ call' = [op |-> "set_parameters",
                          arg |-> [cls |-> cls, new_params |-> new_params],
                          raised |-> IF out.raised THEN "ValueError" ELSE "",
                          before |-> [params |-> params, lparams |-> lparams]]
    /\ ncalls' = ncalls + 1
    /\ UNCHANGED <<params, set_vars>>

NextParams == SetAnimalParameters \/ SetLandscapeParameters

SpecParams == InitParams /\ [][NextParams]_vars

----------------------------------------------------------------------------
(* One animal alone: the methods of Animal, Herbivore and Carnivore called *)
(* on an object, under parameter tables set_parameters has accepted.       *)

\* the parameter tables tried: the defaults, eta = 1 for both species, a
\* carnivore of small appetite F and small DeltaPhiMax, and a carnivore of
\* no appetite
AnimalSettings ==
    { [Herbivore |-> HerbivoreParams, Carnivore |-> CarnivoreParams],
      [Herbivore |->
           Animal_set_parameters(HerbivoreParams, [eta |-> 1000]).table,
       Carnivore |->
           Animal_set_parameters(CarnivoreParams, [eta |-> 1000]).table],
      [Herbivore |-> HerbivoreParams,
       Carnivore |->
           Animal_set_parameters(CarnivoreParams,
               [F |-> 20000, DeltaPhiMax |-> 500]).table],
      [Herbivore |-> HerbivoreParams,
       Carnivore |->
           Animal_set_parameters(CarnivoreParams, [F |-> 0]).table] }

\* weights, ages, amounts of food, numbers of animals and newborn weights
\* the methods are called with
WeightInputs == {-1000, 0, 5000, 40000}

AgeInputs == {-1, 0, 50}

FoodInputs == {-1000, 0, 4000, 10000, 30000}

NumInputs == {1, 2, 8}

BirthWeights == GaussDraws \cup {35000}

\* the herbivores a carnivore meets, by ascending fitness
HerbInputs ==
    << new_animal(101, "Herbivore", 5000, 50),
       new_animal(102, "Herbivore", 20000, 5),
       new_animal(103, "Herbivore", 40000, 0) >>

\* the lists Carnivore.eating is called with: the herbivores of a set, sorted
\* by ascending fitness as Landscape.carn_eating passes them
HerdInputs ==
    { SelectSeq(HerbInputs, LAMBDA h : h.id \in ids) :
        ids \in {t \in SUBSET {101, 102, 103} : Cardinality(t) <= MaxHerd} }

InitAnimal ==
    \E tables \in AnimalSettings : InitWith(tables, LandscapeSettings, FALSE)

animal_vars ==
    <<class_vars, island_map, pc, year, placed, phases, migrate_vars,
      landscape>>

\* the object without its cache, as the model of the cells holds it
plain(o) == new_animal(o.id, o.species, o.weight, o.age)

busy == call.op = "eating" /\ ~call.done

\* Herbivore(weight, age), Carnivore(weight, age)
Construct ==
    /\ subject = <<>>
    /\ \E cls \in DOMAIN params, weight \in WeightInputs, age \in AgeInputs :
          /\ call' = [op |-> "__init__",
                      arg |-> [cls |-> cls, weight |-> weight, age |-> age],
                      raised |-> IF init_raises(weight, age)
                                 THEN "ValueError" ELSE "",
                      before |-> subject]
          /\ IF init_raises(weight, age)
             THEN UNCHANGED <<subject, next_id>>
             ELSE /\ subject' = Animal_init(next_id, cls, weight, age)
                  /\ next_id' = next_id + 1
    /\ UNCHANGED <<animal_vars, ncalls>>

\* a method of the object may be called
callable == subject # <<>> /\ ~busy /\ ncalls < MaxOps

\* subject.aging()
AnimalAging ==
    /\ callable
    /\ subject' = Animal_aging(subject)
    /\ call' = [op |-> "aging", arg |-> <<>>, raised |-> "",
                before |-> subject]
    /\ ncalls' = ncalls + 1
    /\ UNCHANGED <<animal_vars, next_id>>

\* subject.weight_change()
AnimalWeightChange ==
    /\ callable
    /\ subject' = Animal_weight_change(subject)
    /\ call' = [op |-> "weight_change", arg |-> <<>>, raised |-> "",
                before |-> subject]
    /\ ncalls' = ncalls + 1
    /\ UNCHANGED <<animal_vars, next_id>>

\* Landscape.animal_weight_change of a cell whose population is the subject
CellWeightChange ==
    /\ callable
    /\ LET cell == IF subject.species = "Herbivore"
                   THEN [new_cell("D") EXCEPT !.herb = <<plain(subject)>>]
                   ELSE [new_cell("D") EXCEPT !.carn = <<plain(subject)>>]
       IN  call' = [op |-> "animal_weight_change", arg |-> cell,
                    raised |-> "", before |-> subject,
                    returned |-> animal_weight_change(cell)]
    /\ subject' = Animal_weight_change(subject)
    /\ ncalls' = ncalls + 1
    /\ UNCHANGED <<animal_vars, next_id>>

\* subject.fitness
ReadFitness ==
    /\ callable
    /\ subject' = fitness_getter(subject)
    /\ call' = [op |-> "fitness", arg |-> <<>>, raised |-> "",
                before |-> subject, returned |-> subject'._fitness]
    /\ ncalls' = ncalls + 1
    /\ UNCHANGED <<animal_vars, next_id>>

\* subject.probability_birth(num_animals)
ProbabilityBirth ==
    /\ callable
    /\ \E num_animals \in NumInputs :
          LET out == Animal_probability_birth(subject, num_animals)
          IN  /\ subject' = out.animal
              /\ call' = [op |-> "probability_birth", arg |-> num_animals,
                          raised |-> "", before |-> subject,
                          returned |-> out.returned]
    /\ ncalls' = ncalls + 1
    /\ UNCHANGED <<animal_vars, next_id>>

\* subject.birth(num_animals)
AnimalBirth ==
    /\ callable
    /\ \E num_animals \in NumInputs, r \in Draws, w_newborn \in BirthWeights :
          LET out == Animal_birth(subject, num_animals, r, w_newborn, next_id)
          IN  /\ subject' = out.mother
              /\ next_id' = next_id + Len(out.newborn)
              /\ call' = [op |-> "birth",
                          arg |-> [num_animals |-> num_animals, r |-> r,
                                   w_newborn |-> w_newborn],
                          raised |-> "", before |-> subject,
                          returned |-> out.newborn]
    /\ ncalls' = ncalls + 1
    /\ UNCHANGED animal_vars

\* subject.eating(available_food) of a herbivore
HerbivoreEating ==
    /\ callable
    /\ subject.species = "Herbivore"
    /\ \E available_food \in FoodInputs :
          LET out == Herbivore_eating(subject, available_food)
          IN  /\ subject' = out.animal
              /\ call' = [op |-> "herbivore_eating", arg |-> available_food,
                          raised |-> out.raised, before |-> subject,
                          returned |-> out.returned]
    /\ ncalls' = ncalls + 1
    /\ UNCHANGED <<animal_vars, next_id>>

\* subject.carn_kills_herb(herbivore) of a carnivore, with the draw r
CarnKillsHerb ==
    /\ callable
    /\ subject.species = "Carnivore"
    /\ \E herbivore \in Range(HerbInputs), r \in Draws :
          /\ subject' = fitness_getter(subject)
          /\ call' = [op |-> "carn_kills_herb",
                      arg |-> [herbivore |-> herbivore, r |-> r],
                      raised |-> "", before |-> subject,
                      returned |-> carn_kills_herb(subject, herbivore, r)]
    /\ ncalls' = ncalls + 1
    /\ UNCHANGED <<animal_vars, next_id>>

\* subject.eating(herbivores) of a carnivore up to its for loop; an empty
\* list returns at once
CarnivoreEating ==
    /\ callable
    /\ subject.species = "Carnivore"
    /\ \E herbivores \in HerdInputs :
          call' = [op |-> "eating", arg |-> herbivores, raised |-> "",
                   before |-> subject, i |-> 1, eaten_food |-> 0,
                   surviving |-> <<>>, considered |-> <<>>,
                   done |-> herbivores = <<>>, returned |-> <<>>]
    /\ ncalls' = ncalls + 1
    /\ UNCHANGED <<animal_vars, subject, next_id>>

\* one iteration of the for loop of subject.eating(herbivores); the last one
\* (or the break) returns surviving_herbivores
EatingStep ==
    /\ subject # <<>>
    /\ busy
    /\ \E r \in Draws :
          LET out == eating_step(subject, call.arg, call.i, call.eaten_food,
                                 call.surviving, r)
          IN  /\ subject' = out.carn
              /\ call' = [call EXCEPT
                            !.i = out.i,
                            !.eaten_food = out.eaten_food,
                            !.surviving = out.surviving,
                            !.considered =
                                <<[herb |-> call.arg[call.i],
                                   at |-> call.i,
                                   carn |-> plain(subject),
                                   eaten_food |-> call.eaten_food,
                                   verdict |-> out.verdict]>>,
                            !.done = out.i > Len(call.arg),
                            !.returned = IF out.i > Len(call.arg)
                                         THEN out.surviving ELSE <<>>]
    /\ UNCHANGED <<animal_vars, ncalls, next_id>>

NextAnimal ==
    \/ Construct
    \/ AnimalAging
    \/ AnimalWeightChange
    \/ CellWeightChange
    \/ ReadFitness
    \/ ProbabilityBirth
    \/ AnimalBirth
    \/ HerbivoreEating
    \/ CarnKillsHerb
    \/ CarnivoreEating
    \/ EatingStep

SpecAnimal == InitAnimal /\ [][NextAnimal]_vars

\* dictionaries changing one parameter of the fitness function
FitnessParams ==
    { [phi_age |-> 400], [a_half |-> 5000], [phi_weight |-> 400],
      [w_half |-> 30000] }

\* type(subject).set_parameters(new_params): the class table is updated, no
\* object is touched
SetFitnessParameters ==
    /\ callable
    /\ \E new_params \in FitnessParams :
          LET out == Animal_set_parameters(params[subject.species], new_params)
          IN  /\ params' = [params EXCEPT ![subject.species] = out.table]
              /\ call' = [op |-> "set_parameters",
                          arg |-> [cls |-> subject.species,
                                   new_params |-> new_params],
                          raised |-> IF out.raised THEN "ValueError" ELSE "",
                          before |-> [params |-> params, lparams |-> lparams]]
    /\ ncalls' = ncalls + 1
    /\ UNCHANGED <<lparams, prob_kill_zero, island_map, pc, year, placed,
                   phases, migrate_vars, subject, landscape, next_id>>

NextAnimalParams == NextAnimal \/ SetFitnessParameters

SpecAnimalParams == InitAnimal /\ [][NextAnimalParams]_vars

----------------------------------------------------------------------------
(* One cell alone: the methods of Landscape and its subclasses called on   *)
(* an object that add_population has filled.                               *)

MaxCellPop == 3

MaxCellOps == 3

\* the class tables tried: the defaults, and a carnivore given the fitness
\* function of the herbivore by set_parameters
CellSettings ==
    { [Herbivore |-> HerbivoreParams, Carnivore |-> CarnivoreParams],
      [Herbivore |-> HerbivoreParams,
       Carnivore |->
           Animal_set_parameters(CarnivoreParams,
               [key \in {"phi_age", "a_half", "phi_weight", "w_half"} |->
                   HerbivoreParams[key]]).table] }

\* the populations add_population is given: every list of up to MaxCellPop
\* dictionaries, and two fit animals of each species
CellPops ==
    LET animals ==
            { [species |-> "Herbivore", weight |-> 40000, age |-> 0],
              [species |-> "Herbivore", weight |-> 20000, age |-> 5],
              [species |-> "Carnivore", weight |-> 20000, age |-> 5],
              [species |-> "Carnivore", weight |-> 40000, age |-> 0] }
    IN  UNION {[1..n -> animals] : n \in 0..MaxCellPop}
        \cup { << [species |-> "Herbivore", weight |-> 40000, age |-> 0],
                  [species |-> "Carnivore", weight |-> 40000, age |-> 0],
                  [species |-> "Herbivore", weight |-> 40000, age |-> 0],
                  [species |-> "Carnivore", weight |-> 40000, age |-> 0] >> }

InitCell ==
    \E tables \in CellSettings : InitWith(tables, LandscapeSettings, FALSE)

\* Jungle(), Savannah(), Desert(), Mountain(), Ocean() and add_population(pop)
NewCell ==
    /\ landscape = <<>>
    /\ \E letter \in {"J", "S", "D", "M", "O"}, pop \in CellPops :
          LET out == add_population(new_cell(letter), pop, next_id)
          IN  /\ landscape' = out.cell
              /\ next_id' = out.next_id
              /\ call' = [op |-> "add_population", arg |-> pop,
                          raised |-> out.raised, before |-> new_cell(letter)]
    /\ UNCHANGED <<class_vars, island_map, pc, year, placed, phases,
                   migrate_vars, subject, ncalls>>

\* landscape.carn_eating()
CellCarnEating ==
    /\ landscape # <<>>
    /\ ncalls < MaxCellOps
    /\ \E o \in carn_eating_loop(fitness_sorting(landscape, FALSE, TRUE), 1,
                                 <<>>) :
          /\ landscape' = o.cell
          /\ call' = [op |-> "carn_eating", arg |-> <<>>, raised |-> "",
                      before |-> landscape, invoked |-> o.invoked]
    /\ ncalls' = ncalls + 1
    /\ UNCHANGED <<class_vars, island_map, pc, year, placed, phases,
                   migrate_vars, subject, next_id>>

\* landscape.food_growth()
CellFoodGrowth ==
    /\ landscape # <<>>
    /\ ncalls < MaxCellOps
    /\ landscape' = food_growth(landscape)
    /\ call' = [op |-> "food_growth", arg |-> <<>>, raised |-> "",
                before |-> landscape]
    /\ ncalls' = ncalls + 1
    /\ UNCHANGED <<class_vars, island_map, pc, year, placed, phases,
                   migrate_vars, subject, next_id>>

\* landscape.herb_eating()
CellHerbEating ==
    /\ landscape # <<>>
    /\ ncalls < MaxCellOps
    /\ landscape' = herb_eating(landscape)
    /\ call' = [op |-> "herb_eating", arg |-> <<>>, raised |-> "",
                before |-> landscape]
    /\ ncalls' = ncalls + 1
    /\ UNCHANGED <<class_vars, island_map, pc, year, placed, phases,
                   migrate_vars, subject, next_id>>

\* landscape.animal_birth(), on a population no larger than add_population
\* is given
CellBirth ==
    /\ landscape # <<>>
    /\ ncalls < MaxCellOps
    /\ Len(landscape.herb) + Len(landscape.carn) <= MaxCellPop + 1
    /\ \E o \in animal_birth(landscape, next_id) :
          /\ landscape' = o.cell
          /\ next_id' = o.next_id
          /\ call' = [op |-> "animal_birth", arg |-> <<>>, raised |-> "",
                      before |-> landscape, attempts |-> o.attempts]
    /\ ncalls' = ncalls + 1
    /\ UNCHANGED <<class_vars, island_map, pc, year, placed, phases,
                   migrate_vars, subject>>

\* the probability lists animal_moves_to is given: lists that sum to one,
\* one that the rounding of the quotients left just below one, and lists
\* that are no distribution
ProbInputs ==
    { <<250, 250, 250, 250>>, <<1000, 0, 0, 0>>, <<0, 1000, 0, 0>>,
      <<0, 0, 0, 1000>>, <<500, 0, 500, 0>>, <<0, 900, 100, 0>>,
      <<0, 0, 600, 400>>, <<0, 880, 119, 0>>, <<500, 0, 0, 0>>,
      <<600, 600, 0, 0>> }

\* landscape.animal_moves_to(prob_move) with rnd drawn by random.random():
\* round(sum(prob_move), 15) lets through the sums that differ from one by
\* the rounding of the quotients, less than one unit each
MovesTo ==
    /\ landscape = <<>>
    /\ call = NoCall
    /\ \E prob \in ProbInputs, rnd \in MoveDraws \cup {500} :
          call' = [op |-> "animal_moves_to", arg |-> prob, rnd |-> rnd,
                   raised |-> IF \/ SumSeq(prob) > 1000
                                 \/ 1000 - SumSeq(prob) >= Len(prob)
                              THEN "ValueError" ELSE "",
                   returned |-> animal_moves_to(prob, rnd)]
    /\ UNCHANGED <<class_vars, island_map, pc, year, placed, phases,
                   migrate_vars, subject, landscape, next_id,
                   ncalls>>

\* the neighbours a cell is given, north, east, south, west, by the letters
\* of their classes
NeighbourInputs ==
    { <<"O", "M", "O", "O">>, <<"J", "O", "S", "D">>, <<"D", "J", "J", "J">>,
      <<"S", "S", "M", "S">>, <<"J", "J", "J", "J">> }

\* landscape.herb_migration(neighbours) and landscape.carn_migration(neighbours)
\* of a cell add_population has just filled
CellMigration ==
    /\ landscape # <<>>
    /\ ncalls = 0
    /\ \E letters \in NeighbourInputs, species \in {"herbivore", "carnivore"} :
          LET neighbours == [j \in 1..4 |-> new_cell(letters[j])]
          IN  \E o \in migration_loop(landscape, neighbours, species, 1, <<>>) :
                 /\ landscape' = o.cell
                 /\ call' = [op |-> "migration", arg |-> neighbours,
                             species |-> species, raised |-> "",
                             before |-> landscape, returned |-> o.neighbours]
    /\ ncalls' = ncalls + 1
    /\ UNCHANGED <<class_vars, island_map, pc, year, placed, phases,
                   migrate_vars, subject, next_id>>

NextCell ==
    \/ NewCell
    \/ MovesTo
    \/ CellMigration
    \/ CellFoodGrowth
    \/ CellHerbEating
    \/ CellCarnEating
    \/ CellBirth

SpecCell == InitCell /\ [][NextCell]_vars

----------------------------------------------------------------------------
(* The constructor of Island alone, on maps of every shape.                *)

\* the rows of the maps tried: every row of up to MaxCols letters among
\* ocean, jungle and a letter with no landscape, and the rows of an ocean
\* shore around one letter of any kind
RowInputs ==
    UNION {[1..n -> {"O", "J", "K"}] : n \in 1..MaxCols}
    \cup {<<"O", letter, "O">> : letter \in landscape_letters \cup {"K"}}

\* the maps tried, as geogr.split() gives them: up to MaxRows rows
MapInputs == UNION {[1..n -> RowInputs] : n \in 0..MaxRows}

\* before the constructor is called there is no Island
InitIsland ==
    /\ params = [Herbivore |-> HerbivoreParams, Carnivore |-> CarnivoreParams]
    /\ lparams = LandscapeSettings
    /\ prob_kill_zero = FALSE
    /\ island_map = <<>>
    /\ next_id = 1
    /\ pc = "idle"
    /\ year = 0
    /\ rnd_island = <<>>
    /\ cur = 0
    /\ k = 0
    /\ remaining = <<>>
    /\ ncalls = 0
    /\ call = NoCall
    /\ placed = <<0, 0>>
    /\ phases = <<>>
    /\ origin = <<>>
    /\ place_of = <<>>
    /\ pre_pass = <<>>
    /\ subject = <<>>
    /\ landscape = <<>>

\* Island(geogr)
ConstructIsland ==
    /\ call = NoCall
    /\ \E geogr \in MapInputs :
          LET out == Island_init(geogr)
          IN  /\ call' = [op |-> "Island", arg |-> geogr,
                          raised |-> out.raised, before |-> island_map]
              /\ island_map' = IF out.raised = "" THEN out.island_map
                               ELSE island_map
    /\ ncalls' = ncalls + 1
    /\ UNCHANGED <<class_vars, subject, landscape, next_id, pc, year, placed, phases,
                   migrate_vars>>

NextIsland == ConstructIsland

SpecIsland == InitIsland /\ [][NextIsland]_vars

----------------------------------------------------------------------------
(* Properties of the simulation. *)

\* gamma = 0, omega = 0 for both species and prob_kill patched to 0
MigrationOnly ==
    /\ \A sp \in DOMAIN params : params[sp].gamma = 0 /\ params[sp].omega = 0
    /\ prob_kill_zero

\* the herbivores the island holds, resident or staged
all_herbivores ==
    UNION {Range(island_map[loc].herb) \cup Range(island_map[loc].herb_immigrants)
           : loc \in Locs}

RECURSIVE SumWeights(_)
SumWeights(animals) ==
    IF animals = {} THEN 0
    ELSE LET a == CHOOSE x \in animals : TRUE
         IN  a.weight + SumWeights(animals \ {a})

\* the animal the running migration loop is about to draw for, if any
at_draw ==
    /\ pc \in {"herb_migration", "carn_migration"}
    /\ cur <= Len(rnd_island)
    /\ k <= Len(IF pc = "herb_migration" THEN island_map[rnd_island[cur]].herb
                ELSE island_map[rnd_island[cur]].carn)

drawing ==
    IF pc = "herb_migration" THEN island_map[rnd_island[cur]].herb[k]
    ELSE island_map[rnd_island[cur]].carn[k]

\* a cell's migration loop has handled an animal and has not yet replaced
\* the cell's list by the animals that remain
in_cell_loop ==
    /\ pc \in {"herb_migration", "carn_migration"}
    /\ cur <= Len(rnd_island)
    /\ k > 1

\* C1: with birth, death and kill probabilities forced to zero, the totals of
\* number_of_animals() are what place_animals put on the island, before and
\* after every annual cycle and between the steps of a cycle: migration
\* loses and duplicates no animal.
C1_PopulationConserved ==
    (MigrationOnly /\ ~in_cell_loop) => number_of_animals(island_map) = placed

\* C1 witness: a migration-only year has ended with both species present and
\* a herbivore in the Desert cell, where no record places herbivores.
C1_Witness ==
    /\ MigrationOnly
    /\ year = 1
    /\ pc = "idle"
    /\ placed[1] > 0
    /\ placed[2] > 0
    /\ island_map[<<2, 1>>].herb # <<>>

PhaseOrder ==
    <<"food_growth", "herb_eating", "carn_eating", "birth", "migration",
      "aging", "weight_loss", "death">>

\* C2: the phases of an annual cycle run in the order food growth, herbivore
\* feeding, carnivore feeding, birth, migration, aging, weight loss, death:
\* what has run is always a prefix of that order, and a returned cycle has
\* run all eight.
C2_PhaseOrder ==
    /\ Len(phases) <= Len(PhaseOrder)
    /\ phases = SubSeq(PhaseOrder, 1, Len(phases))
    /\ (pc = "idle" /\ year > 0) => phases = PhaseOrder
    /\ (pc = "idle" /\ year = 0) => phases = <<>>

\* C2 witness: a cycle has returned after carnivores fed on a cell's
\* herbivores and animals migrated.
C2_Witness ==
    /\ pc = "idle"
    /\ year = 1
    /\ phases = PhaseOrder
    /\ number_of_animals(island_map)[1] < placed[1]

\* C3: an animal is drawn for only in the cell it began the migration in
\* (a staged immigrant is never drawn for again), and when animals_migrate
\* returns every animal is in its original cell or one of its four
\* neighbours.
C3_MovesAtMostOnce ==
    /\ at_draw => origin[drawing.id] = rnd_island[cur]
    /\ pc = "all_animals_aging" =>
          \A id \in DOMAIN origin :
              /\ id \in DOMAIN locations(island_map)
              /\ locations(island_map)[id] \in
                    {origin[id]} \cup Range(neighbour_locations(origin[id]))

\* C3 witness: the cell being visited already holds a staged herbivore
\* immigrant while it still has a herbivore of its own to draw for.
C3_Witness ==
    /\ pc = "herb_migration"
    /\ at_draw
    /\ island_map[rnd_island[cur]].herb_immigrants # <<>>

\* C4: the destination probabilities of an animal that may attempt to
\* migrate are those its neighbours' fodder and population had when the
\* species' pass began.
C4_PreMigrationSnapshot ==
    (at_draw /\ prob_migration(drawing) > 0) =>
        LET nlocs == neighbour_locations(rnd_island[cur])
            species == IF pc = "herb_migration" THEN "herbivore"
                       ELSE "carnivore"
        IN  prob_move(get_neighbours(island_map, nlocs), drawing, species) =
                prob_move(get_neighbours(pre_pass, nlocs), drawing, species)

\* C5: when carnivores migrate no herbivore is staged anywhere, and the
\* fodder a cell offers carnivores is the total weight of the herbivores
\* whose place after the herbivore pass is that cell.
C5_HerbivoresCommittedFirst ==
    pc = "carn_migration" =>
        /\ \A loc \in Locs : island_map[loc].herb_immigrants = <<>>
        /\ \A loc \in Locs :
              get_available_fodder(island_map[loc], "carnivore") =
                  SumWeights({h \in all_herbivores : place_of[h.id] = loc})

\* C6: Mountain and Ocean cells never hold or stage an animal.
C6_NoAnimalsOnMountainOrOcean ==
    \A loc \in Locs :
        island_map[loc].kind \in {"M", "O"} =>
            /\ island_map[loc].herb = <<>>
            /\ island_map[loc].carn = <<>>
            /\ island_map[loc].herb_immigrants = <<>>
            /\ island_map[loc].carn_immigrants = <<>>

----------------------------------------------------------------------------
(* Properties of place_animals. *)

\* the record of the last call names a position of the grid
in_grid(loc) == loc[1] \in 1..NumRows /\ loc[2] \in 1..NumCols

\* every animal dictionary of the population can be built
constructible(pop) ==
    \A i \in 1..Len(pop) :
        /\ class_of(pop[i].species) # ""
        /\ pop[i].weight > 0
        /\ pop[i].age >= 0

\* how many animals of a class the population asks for
asked(pop, cls) ==
    Cardinality({i \in 1..Len(pop) : class_of(pop[i].species) = cls})

\* the weights and ages of a list of animals, in order
described(animals) ==
    [i \in 1..Len(animals) |-> <<animals[i].weight, animals[i].age>>]

\* the weights and ages the population asks for in a class, in order
asked_list(pop, cls) ==
    LET of_class(a) == class_of(a.species) = cls
    IN  described(SelectSeq(pop, of_class))

\* C7: a record of constructible animals whose 1-indexed location names a
\* Jungle, Savannah or Desert cell is appended to island_map[row-1][col-1]
\* and to no other cell, so the cell's counts and the island's totals grow
\* by the record's animals of each species; on a Mountain or Ocean cell the
\* call raises and the island is as before.
C7_PlacementOnNamedCell ==
    (/\ call.op = "place_animals"
     /\ in_grid(call.arg.loc)
     /\ constructible(call.arg.pop)) =>
        LET target == <<call.arg.loc[1] - 1, call.arg.loc[2] - 1>>
            old == call.before
            pop == call.arg.pop
        IN  IF old[target].kind \in {"J", "S", "D"}
            THEN /\ call.raised = ""
                 /\ \A loc \in Locs \ {target} : island_map[loc] = old[loc]
                 /\ described(island_map[target].herb) =
                       described(old[target].herb) \o asked_list(pop, "Herbivore")
                 /\ described(island_map[target].carn) =
                       described(old[target].carn) \o asked_list(pop, "Carnivore")
                 /\ number_of_animals(island_map) =
                       <<number_of_animals(old)[1] + asked(pop, "Herbivore"),
                         number_of_animals(old)[2] + asked(pop, "Carnivore")>>
            ELSE /\ call.raised # ""
                 /\ island_map = old

\* C7 witness: a record of a herbivore and a carnivore was placed on the
\* Jungle cell, which already held animals.
C7_Witness ==
    /\ call.op = "place_animals"
    /\ call.arg.loc = <<2, 2>>
    /\ constructible(call.arg.pop)
    /\ asked(call.arg.pop, "Herbivore") = 1
    /\ asked(call.arg.pop, "Carnivore") = 1
    /\ call.before[<<1, 1>>].herb # <<>>
    /\ call.raised = ""

\* C8: a record whose location lies outside the grid, rows and columns that
\* are zero or negative included, raises and places nothing.
C8_OutOfGridRejected ==
    (call.op = "place_animals" /\ ~in_grid(call.arg.loc)) =>
        /\ call.raised # ""
        /\ island_map = call.before

\* C9: when a record fails, no animal of it has been added to any cell.
C9_FailedRecordPlacesNothing ==
    (call.op = "place_animals" /\ call.raised # "") =>
        island_map = call.before

----------------------------------------------------------------------------
(* Properties of set_parameters. *)

\* the value is in the range the class accepts for the key
in_range(animal_class, key, value) ==
    IF animal_class
    THEN /\ key \in DOMAIN lower => value >= lower[key]
         /\ key \in DOMAIN upper => value <= upper[key]
         /\ key = "DeltaPhiMax" => value > 0
    ELSE /\ value >= 0
         /\ key = "alpha" => value <= 1000

\* C10: set_parameters is all-or-nothing: a dictionary with an unknown key or
\* a value out of range raises and leaves every table as it was; otherwise
\* the class's table takes every given key, keeps its other keys, and no
\* other class's table changes.
C10_SetParametersAllOrNothing ==
    call.op = "set_parameters" =>
        LET cls == call.arg.cls
            new_params == call.arg.new_params
            animal_class == cls \in DOMAIN params
            old == IF animal_class THEN call.before.params[cls]
                   ELSE call.before.lparams[cls]
            now == IF animal_class THEN params[cls] ELSE lparams[cls]
            valid == \A key \in DOMAIN new_params :
                        /\ key \in DOMAIN old
                        /\ in_range(animal_class, key, new_params[key])
        IN  IF valid
            THEN /\ call.raised = ""
                 /\ now = [key \in DOMAIN old |->
                              IF key \in DOMAIN new_params
                              THEN new_params[key] ELSE old[key]]
                 /\ \A c \in DOMAIN params \ {cls} :
                       params[c] = call.before.params[c]
                 /\ \A c \in DOMAIN lparams \ {cls} :
                       lparams[c] = call.before.lparams[c]
            ELSE /\ call.raised # ""
                 /\ params = call.before.params
                 /\ lparams = call.before.lparams

\* C10 witness: a call raised on a dictionary that also held a known key with
\* a value in range and different from the table's.
C10_Witness ==
    /\ call.op = "set_parameters"
    /\ call.raised # ""
    /\ call.arg.cls = "Carnivore"
    /\ \E key \in DOMAIN call.arg.new_params :
          /\ key \in DOMAIN call.before.params.Carnivore
          /\ in_range(TRUE, key, call.arg.new_params[key])
          /\ call.arg.new_params[key] # call.before.params.Carnivore[key]

----------------------------------------------------------------------------
(* Properties of one animal. *)

\* the parameter tables are ones set_parameters accepts
accepted_parameters ==
    \A cls \in DOMAIN params :
        ~Animal_set_parameters(params[cls], params[cls]).raised

\* C11: every animal has a weight above 0 in every reachable state: a
\* construction with a weight of 0 or less raises and leaves no object, and
\* after any sequence of eating, birth, weight_change and aging under
\* parameters set_parameters accepts the object, and the animal of a cell
\* after the cell's animal_weight_change, still weighs more than 0.
C11_WeightAlwaysPositive ==
    accepted_parameters =>
        /\ (call.op = "__init__" /\ call.arg.weight <= 0) =>
               (call.raised # "" /\ subject = <<>>)
        /\ subject # <<>> => subject.weight > 0
        /\ call.op = "animal_weight_change" =>
               \A i \in 1..Len(call.returned.herb \o call.returned.carn) :
                   (call.returned.herb \o call.returned.carn)[i].weight > 0

----------------------------------------------------------------------------
(* Properties of the constructor of Island. *)

\* the map is non-empty, its rows have equal length, every letter of its
\* first and last row and the first and last letter of every row is 'O', and
\* every letter is one of J, S, D, M, O
valid_map(geogr) ==
    /\ Len(geogr) > 0
    /\ \A r1, r2 \in 1..Len(geogr) : Len(geogr[r1]) = Len(geogr[r2])
    /\ \A r \in 1..Len(geogr) : \A c \in 1..Len(geogr[r]) :
          /\ (r = 1 \/ r = Len(geogr) \/ c = 1 \/ c = Len(geogr[r])) =>
                 geogr[r][c] = "O"
          /\ geogr[r][c] \in {"J", "S", "D", "M", "O"}

\* C12: Island(geogr) succeeds exactly when the map is valid; otherwise it
\* raises and no Island exists; after a success the cell at (r, c) is of the
\* kind its letter names and the map has a cell for every letter.
C12_IslandConstruction ==
    call.op = "Island" =>
        LET geogr == call.arg
        IN  /\ call.raised = "" <=> valid_map(geogr)
            /\ call.raised # "" => island_map = <<>>
            /\ call.raised = "" =>
                  /\ DOMAIN island_map =
                        (0..(Len(geogr) - 1)) \X (0..(Len(geogr[1]) - 1))
                  /\ \A loc \in DOMAIN island_map :
                        island_map[loc].kind = geogr[loc[1] + 1][loc[2] + 1]

\* C12 witness: an island with land inside its shore was constructed.
C12_Witness ==
    /\ call.op = "Island"
    /\ call.raised = ""
    /\ \E loc \in DOMAIN island_map : island_map[loc].kind = "S"

\* C14: carn_kills_herb reports no kill whenever the carnivore's fitness
\* minus the herbivore's is 0 or less, whatever the draw.
C14_NoKillWithoutFitnessGap ==
    (call.op = "carn_kills_herb"
        /\ fitness(call.before) - fitness(call.arg.herbivore) <= 0) =>
        ~call.returned

\* C15: Herbivore.eating(available_food) with available_food >= 0 returns
\* min(F, available_food) and adds exactly beta times the returned amount to
\* the weight (nothing for 0); with available_food < 0 it raises and leaves
\* the weight as it was.
C15_HerbivoreEating ==
    call.op = "herbivore_eating" =>
        LET F == params.Herbivore.F
            beta == params.Herbivore.beta
            available_food == call.arg
        IN  IF available_food < 0
            THEN /\ call.raised # ""
                 /\ subject.weight = call.before.weight
            ELSE /\ call.raised = ""
                 /\ call.returned =
                       IF F <= available_food THEN F ELSE available_food
                 /\ subject.weight =
                       call.before.weight + Mul(beta, call.returned)
                 /\ available_food = 0 =>
                       (call.returned = 0
                           /\ subject.weight = call.before.weight)

\* C15 witness: a herbivore ate less than its appetite because less was
\* available, and gained weight.
C15_Witness ==
    /\ call.op = "herbivore_eating"
    /\ 0 < call.arg /\ call.arg < params.Herbivore.F
    /\ call.returned = call.arg
    /\ subject.weight > call.before.weight

\* the weight below which probability_birth is 0
birth_threshold(a) == Mul(P(a).zeta, P(a).w_birth + P(a).sigma_birth)

\* C16: probability_birth(n) is 0 for n = 1 whatever the weight and the
\* fitness, 0 for a weight below zeta * (w_birth + sigma_birth), and
\* otherwise gamma * fitness * (n - 1) capped at 1; for n >= 1 it lies in
\* [0, 1]; birth(1) never returns a newborn.
C16_ProbabilityBirth ==
    /\ call.op = "probability_birth" =>
          LET a == call.before
              n == call.arg
              uncapped == Mul(P(a).gamma, fitness(a)) * (n - 1)
          IN  /\ n = 1 => call.returned = 0
              /\ a.weight < birth_threshold(a) => call.returned = 0
              /\ a.weight >= birth_threshold(a) =>
                    call.returned = IF uncapped > 1000 THEN 1000 ELSE uncapped
              /\ n >= 1 => (0 <= call.returned /\ call.returned <= 1000)
    /\ (call.op = "birth" /\ call.arg.num_animals = 1) => call.returned = <<>>

\* C16 witness: probability_birth(1) was asked of an animal heavy enough to
\* give birth and of positive fitness.
C16_Witness ==
    /\ call.op = "probability_birth"
    /\ call.arg = 1
    /\ call.before.weight >= birth_threshold(call.before)
    /\ Mul(P(call.before).gamma, fitness(call.before)) > 0

\* C17: birth(n) either returns no newborn and leaves the mother's weight
\* and age as they were, or returns one newborn of the mother's species, of
\* age 0 and of a weight w with 0 < w < the mother's weight before, and
\* leaves the mother xi * w lighter and heavier than 0.  A drawn weight of 0
\* or less, or not below the mother's, or one that would leave the mother at
\* 0 or less, gives the first outcome.
C17_BirthFrame ==
    call.op = "birth" =>
        LET mother == call.before
            w == call.arg.w_newborn
            after == mother.weight - Mul(P(mother).xi, w)
        IN  /\ \/ /\ call.returned = <<>>
                  /\ subject.weight = mother.weight
                  /\ subject.age = mother.age
               \/ /\ Len(call.returned) = 1
                  /\ call.returned[1].species = mother.species
                  /\ call.returned[1].age = 0
                  /\ call.returned[1].weight = w
                  /\ 0 < w /\ w < mother.weight
                  /\ subject.weight = after
                  /\ subject.weight > 0
                  /\ subject.age = mother.age
            /\ (w <= 0 \/ w >= mother.weight \/ after <= 0) =>
                  call.returned = <<>>

\* C17 witness: a birth took place.
C17_Witness ==
    /\ call.op = "birth"
    /\ Len(call.returned) = 1
    /\ subject.weight < call.before.weight

\* C18: the cached fitness is never stale: whatever aging, weight_change,
\* eating and birth have done, a filled cache holds the fitness function of
\* the current age and weight, and reading fitness returns that value.
C18_FitnessNeverStale ==
    subject # <<>> =>
        LET current == fitness_value(P(subject).phi_age, subject.age,
                                     P(subject).a_half, P(subject).phi_weight,
                                     subject.weight, P(subject).w_half)
        IN  /\ subject._fitness # None => subject._fitness = current
            /\ call.op = "fitness" => call.returned = current

\* C18 witness: a method changed the weight or the age of an animal whose
\* fitness had been read, and the cache is empty again.
C18_Witness ==
    /\ call.op \in {"aging", "weight_change", "herbivore_eating", "birth",
                    "eating"}
    /\ call.before # <<>>
    /\ call.before._fitness # None
    /\ (subject.weight # call.before.weight \/ subject.age # call.before.age)
    /\ subject._fitness = None
    /\ fitness(subject) # call.before._fitness

\* the animals of a cell, herbivores first
residents(cell) == cell.herb \o cell.carn

\* C19: with eta = 1, which set_parameters accepts, weight_change on an
\* animal of any positive weight raises nothing and leaves its weight at
\* exactly 0, and animal_weight_change keeps the animal in its cell's
\* population with weight 0.
C19_EtaOneLeavesWeightZero ==
    (/\ call.op \in {"weight_change", "animal_weight_change"}
     /\ accepted_parameters
     /\ P(call.before).eta = 1000
     /\ call.before.weight > 0) =>
        /\ call.raised = ""
        /\ subject # <<>>
        /\ subject.id = call.before.id
        /\ subject.weight = 0
        /\ call.op = "animal_weight_change" =>
              /\ Len(residents(call.returned)) = Len(residents(call.arg))
              /\ \A i \in 1..Len(residents(call.arg)) :
                    /\ residents(call.returned)[i].id =
                          residents(call.arg)[i].id
                    /\ residents(call.returned)[i].weight = 0

\* C19 witness: a cell's animal_weight_change ran on an animal of positive
\* weight under eta = 1.
C19_Witness ==
    /\ call.op = "animal_weight_change"
    /\ P(call.before).eta = 1000
    /\ call.before.weight > 0
    /\ Len(residents(call.returned)) = 1
    /\ residents(call.returned)[1].weight = 0

RECURSIVE is_subsequence(_, _)
\* s is t with some of its elements left out
is_subsequence(s, t) ==
    IF s = <<>> THEN TRUE
    ELSE IF t = <<>> THEN FALSE
    ELSE IF Head(s) = Head(t) THEN is_subsequence(Tail(s), Tail(t))
    ELSE is_subsequence(s, Tail(t))

\* the list is sorted by ascending fitness
ascending(list) ==
    \A i \in 1..(Len(list) - 1) : fitness(list[i]) <= fitness(list[i + 1])

\* C20: in Carnivore.eating on a list sorted by ascending fitness no
\* herbivore is removed whose fitness is at least the carnivore's when it is
\* considered, the carnivore's fitness being that of its weight after the
\* gains so far; at the first such herbivore the hunt ends and it and all
\* later herbivores are returned as survivors in their order; what is
\* returned is always a subsequence of the list given.
C20_NoFitterHerbivoreEaten ==
    (call.op = "eating" /\ ascending(call.arg)) =>
        /\ is_subsequence(call.surviving, call.arg)
        /\ call.done => (call.returned = call.surviving
                            /\ is_subsequence(call.returned, call.arg))
        /\ call.considered # <<>> =>
              LET last == call.considered[1]
                  rest == SubSeq(call.arg, last.at, Len(call.arg))
              IN  /\ last.verdict = "killed" =>
                        fitness(last.herb) < fitness(last.carn)
                  /\ fitness(last.herb) >= fitness(last.carn) =>
                        /\ last.verdict = "break"
                        /\ call.done
                        /\ Len(call.returned) >= Len(rest)
                        /\ SubSeq(call.returned,
                                  Len(call.returned) - Len(rest) + 1,
                                  Len(call.returned)) = rest

\* C20 witness: the hunt ended at a herbivore at least as fit as the
\* carnivore after an earlier herbivore had been eaten, with a herbivore
\* behind it.
C20_Witness ==
    /\ call.op = "eating"
    /\ ascending(call.arg)
    /\ call.done
    /\ call.considered # <<>>
    /\ call.considered[1].verdict = "break"
    /\ fitness(call.considered[1].herb) >= fitness(call.considered[1].carn)
    /\ 1 < call.considered[1].at /\ call.considered[1].at < Len(call.arg)
    /\ subject.weight > call.before.weight
    /\ Len(call.returned) < Len(call.arg)

RECURSIVE removed_weight(_, _)
\* the sum of the weights of the herbivores of given that are not in kept
removed_weight(given, kept) ==
    IF given = <<>> THEN 0
    ELSE (IF \E j \in 1..Len(kept) : kept[j] = Head(given) THEN 0
          ELSE Head(given).weight)
         + removed_weight(Tail(given), kept)

\* C21: in one call of Carnivore.eating the intake never exceeds F: a kill
\* happens only while the intake is below F, the weight gained is beta times
\* the intake, which at the return is min(F, the weights of the herbivores
\* removed), and with an empty list or with F = 0 the list is returned as
\* given and the carnivore's weight is unchanged.
C21_IntakeCappedAtF ==
    call.op = "eating" =>
        LET F == params.Carnivore.F
            beta == params.Carnivore.beta
            removed == removed_weight(call.arg, call.surviving)
        IN  /\ 0 <= call.eaten_food /\ call.eaten_food <= F
            /\ subject.weight = call.before.weight + Mul(call.eaten_food, beta)
            /\ (call.considered # <<>>
                   /\ call.considered[1].verdict = "killed") =>
                  call.considered[1].eaten_food < F
            /\ call.done =>
                  /\ call.eaten_food = IF F <= removed THEN F ELSE removed
                  /\ (call.arg = <<>> \/ F = 0) =>
                        /\ call.returned = call.arg
                        /\ subject.weight = call.before.weight

\* C21 witness: the last kill took the carnivore's intake to F with prey
\* heavier than what was left of its appetite, and the next herbivore was
\* left alone.
C21_Witness ==
    /\ call.op = "eating"
    /\ call.done
    /\ call.eaten_food = params.Carnivore.F
    /\ removed_weight(call.arg, call.returned) > params.Carnivore.F
    /\ call.considered[1].verdict = "break"
    /\ fitness(call.considered[1].herb) < fitness(call.considered[1].carn)

\* C30: fitness is never stale with respect to the species parameters: when
\* set_parameters has succeeded in changing phi_age, a_half, phi_weight or
\* w_half, the next read of an organism's fitness returns the value of the
\* fitness function under the new parameters, also for an organism whose
\* fitness had been read before.
C30_FitnessFollowsParameters ==
    [][(/\ call.op = "set_parameters"
        /\ call.raised = ""
        /\ call'.op = "fitness")
       => call'.returned =
              fitness_value(params'[subject.species].phi_age, subject.age,
                            params'[subject.species].a_half,
                            params'[subject.species].phi_weight,
                            subject.weight,
                            params'[subject.species].w_half)]_vars

\* C27: add_immigrants_to_pop leaves both staging lists of its cell empty,
\* and animals_migrate commits every staged immigrant: outside the migration
\* phase, hence at the start of every other phase, the staging lists of
\* every cell of the island are empty.
C27_StagingEmptyOutsideMigration ==
    pc \notin {"herb_migration", "carn_migration"} =>
        \A loc \in Locs :
            /\ island_map[loc].herb_immigrants = <<>>
            /\ island_map[loc].carn_immigrants = <<>>

\* every animal object the island holds, resident or staged
everyone(m) ==
    UNION {Range(m[loc].herb) \cup Range(m[loc].carn)
           \cup Range(m[loc].herb_immigrants)
           \cup Range(m[loc].carn_immigrants) : loc \in Locs}

\* C28: in an annual cycle every animal alive at the aging phase, whether it
\* stayed, migrated or was born this year, is aged by exactly 1 and then has
\* weight_change applied exactly once; when the aging phase starts each
\* animal is in the resident list of exactly one cell; ages stay
\* non-negative.
C28_EveryAnimalAgedOnce ==
    [][/\ pc = "all_animals_aging" =>
            \A a \in everyone(island_map) :
                /\ Cardinality({loc \in Locs :
                       a \in Range(island_map[loc].herb)
                                \cup Range(island_map[loc].carn)}) = 1
                /\ \E b \in everyone(island_map') :
                       b.id = a.id /\ b.age = a.age + 1
                                   /\ b.weight = a.weight
       /\ pc = "all_animals_lose_weight" =>
            \A a \in everyone(island_map) :
                \E b \in everyone(island_map') :
                    b.id = a.id /\ b.age = a.age
                                /\ b.weight = weight_change(a).weight
       /\ \A a \in everyone(island_map') : a.age >= 0]_vars

\* what carn_eating's calls of Carnivore.eating have in common, whatever the
\* guard at equal fitness: each call is given a non-empty list sorted by
\* ascending fitness, the callers come in descending fitness order and are
\* at least as fit as every carnivore left out, and when a carnivore is
\* left out the cell has no herbivore or its weakest herbivore is fitter
\* than the first carnivore left out
hunt_order ==
    LET invoked == call.invoked
        hunters == {invoked[j].carn : j \in 1..Len(invoked)}
        left_out == {c \in Range(call.before.carn) : c \notin hunters}
    IN  /\ \A j \in 1..Len(invoked) :
              /\ invoked[j].herbivores # <<>>
              /\ ascending(invoked[j].herbivores)
              /\ invoked[j].carn \in Range(call.before.carn)
              /\ \A c \in left_out : fitness(c) <= fitness(invoked[j].carn)
        /\ \A i, j \in 1..Len(invoked) :
              i < j => fitness(invoked[i].carn) >= fitness(invoked[j].carn)
        /\ Len(invoked) + Cardinality(left_out)
               = Cardinality(Range(call.before.carn))
        /\ left_out # {} =>
              \/ landscape.herb = <<>>
              \/ \E c \in left_out :
                    /\ \A d \in left_out : fitness(d) <= fitness(c)
                    /\ fitness(c) <= fitness(landscape.herb[1])

\* C22 as stated: carnivores hunt in descending fitness order against the
\* herbivores sorted by ascending fitness, Carnivore.eating is never invoked
\* on an empty list, and it is invoked neither for a carnivore whose
\* fitness the weakest remaining herbivore equals or exceeds nor for any
\* later carnivore.
C22_NoCallAtEqualFitness ==
    call.op = "carn_eating" =>
        /\ hunt_order
        /\ \A j \in 1..Len(call.invoked) :
              fitness(call.invoked[j].herbivores[1])
                  < fitness(call.invoked[j].carn)

\* C22 amended: feeding stops for the whole cell at the first carnivore
\* that is strictly less fit than the weakest remaining herbivore; a
\* carnivore exactly as fit as that herbivore still has Carnivore.eating
\* invoked, which returns the list as given, and the loop goes on to the
\* next carnivore.
C22_StopsAtStrictlyFitterHerbivore ==
    call.op = "carn_eating" =>
        /\ hunt_order
        /\ \A j \in 1..Len(call.invoked) :
              fitness(call.invoked[j].herbivores[1])
                  <= fitness(call.invoked[j].carn)
        /\ \A c \in Range(call.before.carn) :
              (/\ landscape.herb # <<>>
               /\ \A j \in 1..Len(call.invoked) : call.invoked[j].carn # c)
              => fitness(c) < fitness(landscape.herb[1])

\* C22 witness: Carnivore.eating was invoked for a carnivore exactly as fit
\* as the weakest herbivore and then for the next carnivore.
C22_Witness ==
    /\ call.op = "carn_eating"
    /\ Len(call.invoked) = 2
    /\ fitness(call.invoked[1].herbivores[1]) = fitness(call.invoked[1].carn)

\* the position of the animal of identity id in the list, 0 when absent
position(list, id) ==
    IF \E i \in 1..Len(list) : list[i].id = id
    THEN CHOOSE i \in 1..Len(list) : list[i].id = id
    ELSE 0

\* the food the k-th herbivore to eat finds when each one before it took
\* min(F, what it found)
RECURSIVE food_left(_, _, _)
food_left(food, F, nth) ==
    IF nth = 1 THEN food
    ELSE LET found == food_left(food, F, nth - 1)
         IN  found - (IF F <= found THEN F ELSE found)

\* C24: in herb_eating the herbivores eat in descending order of the
\* fitness they had before the phase, ties in insertion order; the k-th
\* gains beta times min(F, the food the first k - 1 left); afterwards the
\* available food is the food before minus all that was eaten and is not
\* negative, and a herbivore that got nothing has its weight unchanged.
C24_HerbEating ==
    call.op = "herb_eating" =>
        LET before == call.before
            F == params.Herbivore.F
            beta == params.Herbivore.beta
            n == Len(before.herb)
            was(nth) ==
                before.herb[position(before.herb, landscape.herb[nth].id)]
            meal(nth) ==
                LET found == food_left(before.available_food, F, nth)
                IN  IF F <= found THEN F ELSE found
        IN  /\ Len(landscape.herb) = n
            /\ \A a \in Range(before.herb) :
                  position(landscape.herb, a.id) > 0
            /\ \A i, j \in 1..n :
                  i < j =>
                     \/ fitness(was(i)) > fitness(was(j))
                     \/ /\ fitness(was(i)) = fitness(was(j))
                        /\ position(before.herb, was(i).id)
                               < position(before.herb, was(j).id)
            /\ \A nth \in 1..n :
                  /\ landscape.herb[nth].weight
                         = was(nth).weight + Mul(beta, meal(nth))
                  /\ landscape.herb[nth].age = was(nth).age
                  /\ meal(nth) = 0 => landscape.herb[nth] = was(nth)
            /\ landscape.available_food
                   = food_left(before.available_food, F, n + 1)
            /\ landscape.available_food >= 0
            /\ Range(landscape.carn) = Range(before.carn)

\* C24 witness: three herbivores, two of them equally fit, found less food
\* than one appetite: the first ate what there was and the others nothing.
C24_Witness ==
    /\ call.op = "herb_eating"
    /\ Len(call.before.herb) = 3
    /\ 0 < call.before.available_food
    /\ call.before.available_food < params.Herbivore.F
    /\ landscape.available_food = 0
    /\ landscape.herb[1].weight
           > call.before.herb[position(call.before.herb,
                                       landscape.herb[1].id)].weight
    /\ \E i, j \in 1..3 :
          /\ i < j
          /\ fitness(call.before.herb[i]) = fitness(call.before.herb[j])
    /\ landscape.herb[3] \in Range(call.before.herb)

\* the fmax of the cell's class; Desert, Mountain and Ocean have no food
fmax_of(cell) ==
    IF cell.kind = "J" THEN lparams.Jungle.fmax
    ELSE IF cell.kind = "S" THEN lparams.Savannah.fmax
    ELSE 0

\* C29: the available food of a cell stays within [0, fmax] of its class
\* whatever sequence of growth, feeding and birth phases it goes through:
\* after food_growth a Jungle has fmax, a Savannah has food + alpha * (fmax -
\* food), which lies between the food before and fmax, and a Desert, a
\* Mountain or an Ocean always has 0.
C29_FoodWithinBounds ==
    landscape # <<>> =>
        /\ 0 <= landscape.available_food
        /\ landscape.available_food <= fmax_of(landscape)
        /\ landscape.kind \in {"D", "M", "O"} => landscape.available_food = 0
        /\ call.op = "food_growth" =>
              /\ landscape.kind = "J" =>
                    landscape.available_food = lparams.Jungle.fmax
              /\ landscape.kind = "S" =>
                    /\ landscape.available_food
                           = call.before.available_food
                             + Mul(lparams.Savannah.alpha,
                                   lparams.Savannah.fmax
                                       - call.before.available_food)
                    /\ call.before.available_food <= landscape.available_food

\* C29 witness: the last of MaxCellOps calls on a grazed Savannah was a
\* food_growth from a positive amount of food to less than fmax.
C29_Witness ==
    /\ call.op = "food_growth"
    /\ landscape.kind = "S"
    /\ ncalls = MaxCellOps
    /\ 0 < call.before.available_food
    /\ call.before.available_food < landscape.available_food
    /\ landscape.available_food < lparams.Savannah.fmax

\* one species' list after the birth phase against its list before: the
\* attempts are one per animal of the list before, in its order, each given
\* the length of that list; the animals of before come first, in their
\* order, followed by the newborns; the newborns are, in the order of their
\* mothers, what Animal.birth gives the mothers that lost weight
birth_phase(list_before, list_after, attempts) ==
    LET n == Len(list_before)
        mothers == {i \in 1..n : list_after[i] # list_before[i]}
        nth_birth(i) == Cardinality({x \in mothers : x <= i})
    IN  /\ attempts = [i \in 1..n |-> [animal |-> list_before[i].id,
                                       num_animals |-> n]]
        /\ Len(list_after) = n + Cardinality(mothers)
        /\ \A i \in 1..n : list_after[i].id = list_before[i].id
        /\ \A i \in mothers :
              LET newborn == list_after[n + nth_birth(i)]
              IN  \E r \in Draws, w \in GaussDraws :
                     birth(list_before[i], n, r, w, newborn.id)
                         = [mother |-> list_after[i], newborn |-> <<newborn>>]
        /\ \A j \in (n + 1)..Len(list_after) :
              /\ \A i \in 1..n : list_after[j].id > list_before[i].id
              /\ j < Len(list_after) => list_after[j].id < list_after[j + 1].id

\* C23: in the birth phase of a cell, for the herbivores and then for the
\* carnivores, every animal present before the phase gets exactly one birth
\* attempt, every attempt is given the number of animals of the species
\* before the phase, no newborn gets an attempt or is counted, and the list
\* afterwards is the list before in its order followed by the newborns in
\* the order of their mothers.
C23_BirthPhase ==
    call.op = "animal_birth" =>
        /\ birth_phase(call.before.herb, landscape.herb, call.attempts.herb)
        /\ birth_phase(call.before.carn, landscape.carn, call.attempts.carn)
        /\ \A i \in (Len(call.before.herb) + 1)..Len(landscape.herb),
              j \in (Len(call.before.carn) + 1)..Len(landscape.carn) :
              landscape.herb[i].id < landscape.carn[j].id
        /\ landscape.available_food = call.before.available_food

\* C23 witness: two herbivores and two carnivores were in the cell, both
\* herbivores gave birth and then the second carnivore alone.
C23_Witness ==
    /\ call.op = "animal_birth"
    /\ Len(call.before.herb) = 2
    /\ Len(landscape.herb) = 4
    /\ Len(call.before.carn) = 2
    /\ Len(landscape.carn) = 3
    /\ landscape.herb[1].weight < call.before.herb[1].weight
    /\ landscape.herb[2].weight < call.before.herb[2].weight
    /\ landscape.carn[1] = call.before.carn[1]
    /\ landscape.carn[2].weight < call.before.carn[2].weight

\* p[0] + ... + p[i] of a probability list, i counted from 0
cumulative(prob, i) == SumSeq(SubSeq(prob, 1, i + 1))

\* C25: for a probability list over north, east, south, west that sums to 1
\* and a draw r in [0, 1), animal_moves_to returns the smallest index i with
\* r < p[0] + ... + p[i], a draw equal to a cumulative boundary selecting the
\* next neighbour, and so never the index of a neighbour of probability 0.
C25_SmallestCumulativeIndex ==
    (call.op = "animal_moves_to" /\ SumSeq(call.arg) = 1000) =>
        /\ call.raised = ""
        /\ call.returned \in 0..3
        /\ call.rnd < cumulative(call.arg, call.returned)
        /\ \A i \in 0..3 :
              call.rnd < cumulative(call.arg, i) => call.returned <= i
        /\ call.arg[call.returned + 1] > 0

\* C25 witness: the draw was the boundary 0.5 of the list (0.5, 0, 0.5, 0)
\* and the animal moved south, past the northern neighbour and the eastern
\* one of probability 0.
C25_Witness ==
    /\ call.op = "animal_moves_to"
    /\ call.arg = <<500, 0, 500, 0>>
    /\ call.rnd = 500
    /\ call.returned = 2

\* what prob_move gives a migrating animal of the cell, whatever its sum:
\* probability 0 for a Mountain or an Ocean and a positive probability for
\* every other neighbour, before and after the migration staged immigrants
\* there; the animals that remain keep their order; with no neighbour to
\* live in all four probabilities are 0, every animal stays where it is in
\* the list and the neighbours get nobody
move_probabilities(total(_)) ==
    LET list_before == IF call.species = "herbivore" THEN call.before.herb
                       ELSE call.before.carn
        list_after == IF call.species = "herbivore" THEN landscape.herb
                      ELSE landscape.carn
    IN  /\ is_subsequence(list_after, list_before)
        /\ \A a \in Range(list_before), nb \in {call.arg, call.returned} :
              \A prob \in {prob_move(nb, a, call.species)} :
                  /\ \A j \in 1..4 :
                        IF animals_can_live_here(nb[j]) THEN prob[j] > 0
                        ELSE prob[j] = 0
                  /\ IF \E j \in 1..4 : animals_can_live_here(nb[j])
                     THEN total(prob)
                     ELSE /\ prob = <<0, 0, 0, 0>>
                          /\ list_after = list_before
                          /\ call.returned = call.arg

====
